---------------------------- MODULE Spec2Model ----------------------------
(***************************************************************************)
(* A model of the execution core of BCL (713avo/BCL): the block parser     *)
(* (bcl_block.c), the tokenizer and substitution pipeline (bcl_parser.c),  *)
(* the scope manager and procedure calls (bcl_interp.c), the dispatcher    *)
(* and flat evaluator (bcl_eval.c), the basic commands (bcl_commands.c,    *)
(* bcl_control.c), the expression evaluator (bcl_expr.c) and the recursive *)
(* block executor (bcl_block.c).                                           *)
(*                                                                         *)
(* C strings are TLA+ strings: At(s, i) is the character s[i-1] and the    *)
(* empty string "" stands for the terminating NUL.  The C call stack is    *)
(* the variable stack: one frame per active C function, with the function's*)
(* locals as fields and pc naming the call the function is waiting for.    *)
(* A function that returns leaves its result in the register ret.          *)
(* Doubles are modelled by integers: scripts use integer literals only.    *)
(***************************************************************************)
EXTENDS Integers, Sequences, FiniteSets, TLC

(***************************************************************************)
(* <ctype.h> and <string.h> as used by the sources                         *)
(***************************************************************************)
At(s, i) == IF i >= 1 /\ i <= Len(s) THEN SubSeq(s, i, i) ELSE ""

From(s, i) == IF i <= Len(s) THEN SubSeq(s, i, Len(s)) ELSE ""

First(S) == CHOOSE x \in S : \A y \in S : x <= y

UpperChars == "ABCDEFGHIJKLMNOPQRSTUVWXYZ"

LowerChars == "abcdefghijklmnopqrstuvwxyz"

DigitChars == "0123456789"

\* the characters of a string, as a set
CharsOf(str) == {At(str, i) : i \in 1..Len(str)}

\* the 1-based index of the first occurrence of c in the string, 0 if none
RECURSIVE IndexFrom(_, _, _)
IndexFrom(c, alphabet, i) ==
    IF i > Len(alphabet) THEN 0
    ELSE IF At(alphabet, i) = c THEN i
    ELSE IndexFrom(c, alphabet, i + 1)

IndexIn(c, alphabet) == IF c = "" THEN 0 ELSE IndexFrom(c, alphabet, 1)

SpaceSet == {" ", "\t", "\n", "\r", "\f"}

DigitSet == CharsOf(DigitChars)

AlphaSet == CharsOf(UpperChars) \cup CharsOf(LowerChars)

LowerOf == [c \in CharsOf(UpperChars) |-> At(LowerChars, IndexIn(c, UpperChars))]

DigitOf == [c \in DigitSet |-> IndexIn(c, DigitChars) - 1]

\* the first index from i on whose character is not in chars (or the NUL)
RECURSIVE ScanWhile(_, _, _)
ScanWhile(s, i, chars) ==
    IF i <= Len(s) /\ At(s, i) \in chars THEN ScanWhile(s, i + 1, chars) ELSE i

\* the first index from i on whose character is in stops (or the NUL)
RECURSIVE ScanUntil(_, _, _)
ScanUntil(s, i, stops) ==
    IF i > Len(s) \/ At(s, i) \in stops THEN i ELSE ScanUntil(s, i + 1, stops)

isspace(c) == c \in SpaceSet

isdigit(c) == c \in DigitSet

isalpha(c) == c \in AlphaSet

isalnum(c) == isalpha(c) \/ isdigit(c)

tolower(c) == IF c \in DOMAIN LowerOf THEN LowerOf[c] ELSE c

UpperOf == [c \in CharsOf(LowerChars) |-> At(UpperChars, IndexIn(c, LowerChars))]

toupper(c) == IF c \in DOMAIN UpperOf THEN UpperOf[c] ELSE c

RECURSIVE bcl_strtoupper(_)
bcl_strtoupper(s) ==
    IF s = "" THEN "" ELSE toupper(At(s, 1)) \o bcl_strtoupper(From(s, 2))

RECURSIVE bcl_strtolower(_)
bcl_strtolower(s) ==
    IF s = "" THEN "" ELSE tolower(At(s, 1)) \o bcl_strtolower(From(s, 2))

\* bcl_strcasecmp(a, b) == 0
bcl_strcasecmp(a, b) == bcl_strtolower(a) = bcl_strtolower(b)

\* bcl_strncasecmp(s + i - 1, kw, strlen(kw)) == 0
bcl_strncasecmp(s, i, kw) ==
    /\ i + Len(kw) - 1 <= Len(s)
    /\ bcl_strtolower(SubSeq(s, i, i + Len(kw) - 1)) = bcl_strtolower(kw)

\* while (*p && isspace(*p)) p++
skip_whitespace(s, i) == ScanWhile(s, i, SpaceSet)

\* while (*p && !isspace(*p)) p++
skip_word(s, i) == ScanUntil(s, i, SpaceSet)

\* strchr(delims, c) != NULL for a character c of the string
IsDelim(c, delims) == c # "" /\ IndexIn(c, delims) > 0

\* strtok_r(str, delims, &saveptr): the token, if any, and the new saveptr
strtok_r(s, delims) ==
    LET b == ScanWhile(s, 1, CharsOf(delims))
        e == ScanUntil(s, b, CharsOf(delims))
    IN  IF b > Len(s) THEN [found |-> FALSE, tok |-> "", save |-> ""]
        ELSE [found |-> TRUE, tok |-> SubSeq(s, b, e - 1), save |-> From(s, e + 1)]

RECURSIVE strtok_all(_, _)
strtok_all(s, delims) ==
    LET t == strtok_r(s, delims)
    IN  IF t.found THEN <<t.tok>> \o strtok_all(t.save, delims) ELSE <<>>

RECURSIVE TrimRight(_)
TrimRight(s) ==
    IF s # "" /\ isspace(At(s, Len(s))) THEN TrimRight(SubSeq(s, 1, Len(s) - 1)) ELSE s

(***************************************************************************)
(* bcl_block.c: blocks live in the arena blocks, addressed by their index; *)
(* the index 0 is the NULL pointer.                                        *)
(***************************************************************************)
block_create(t) ==
    [type |-> t, condition |-> "", proc_name |-> "", proc_params |-> "",
     items |-> <<>>, children |-> <<>>]

LineItem(line) == [type |-> "ITEM_LINE", line |-> line, block |-> 0]

BlockItem(b) == [type |-> "ITEM_BLOCK", line |-> "", block |-> b]

block_add_line(arena, b, line) ==
    [arena EXCEPT ![b].items = Append(@, LineItem(line))]

block_add_block_item(arena, parent, child) ==
    [arena EXCEPT ![parent].items = Append(@, BlockItem(child))]

block_add_child(arena, b, child) ==
    [arena EXCEPT ![b].children = Append(@, child)]

get_first_token(line) ==
    LET b == skip_whitespace(line, 1)
    IN  SubSeq(line, b, skip_word(line, b) - 1)

line_contains_end(line) ==
    LET tokens == strtok_all(line, " \t\n\r\f")
    IN  \E k \in 1..Len(tokens) : bcl_strtoupper(tokens[k]) = "END"

\* The position where the scan for THEN or DO stops: the first whitespace
\* character whose following non-space text begins with THEN or DO.
RECURSIVE ConditionEnd(_, _)
ConditionEnd(line, end) ==
    IF At(line, end) = "" THEN end
    ELSE IF /\ isspace(At(line, end))
            /\ LET next == skip_whitespace(line, end + 1)
               IN  \/ bcl_strncasecmp(line, next, "THEN")
                   \/ bcl_strncasecmp(line, next, "DO")
         THEN end
    ELSE ConditionEnd(line, end + 1)

StripCaseQuotes(keyword, c) ==
    IF /\ bcl_strcasecmp(keyword, "CASE")
       /\ Len(c) >= 2
       /\ \/ At(c, 1) = "\"" /\ At(c, Len(c)) = "\""
          \/ At(c, 1) = "'" /\ At(c, Len(c)) = "'"
    THEN SubSeq(c, 2, Len(c) - 1)
    ELSE c

extract_condition(line, keyword) ==
    LET p0 == skip_whitespace(line, 1)
        p  == skip_whitespace(line, p0 + Len(keyword))
        e  == ConditionEnd(line, p)
    IN  IF e = p THEN "" ELSE StripCaseQuotes(keyword, TrimRight(SubSeq(line, p, e - 1)))

\* "DO" as a whole word at position i
IsDoWord(s, i) ==
    bcl_strncasecmp(s, i, "DO") /\ (At(s, i + 2) = "" \/ isspace(At(s, i + 2)))

\* The parameter text of "PROC name WITH params DO" ("" is the NULL proc_params)
ProcParamsText(line, p) ==
    LET cand == {e \in p..Len(line) :
                    isspace(At(line, e)) /\ IsDoWord(line, skip_whitespace(line, e))}
    IN  IF cand = {} THEN ""
        ELSE IF First(cand) > p THEN TrimRight(SubSeq(line, p, First(cand) - 1))
        ELSE ""

ProcHeader(line) ==
    LET p0 == skip_whitespace(line, 1) + 4
        nb == skip_whitespace(line, p0)
        ne == skip_word(line, nb)
        p  == skip_whitespace(line, ne)
        w  == skip_whitespace(line, p + 4)
    IN  [proc_name |-> SubSeq(line, nb, ne - 1),
         proc_params |->
            IF IsDoWord(line, p) THEN ""
            ELSE IF bcl_strncasecmp(line, p, "WITH")
                 THEN (IF IsDoWord(line, w) THEN "" ELSE ProcParamsText(line, w))
                 ELSE ""]

(***************************************************************************)
(* bcl_parse_blocks: the effect of one source line on the arena and on the *)
(* stack of open blocks (stk[1] is the root, the last element is the top). *)
(***************************************************************************)
PTop(stk) == stk[Len(stk)]

PPop(stk) == SubSeq(stk, 1, Len(stk) - 1)

NewId(arena) == Len(arena) + 1

\* A keyword that opens a block appended to the items of the current top
parse_open(arena, stk, type, cond) ==
    LET id == NewId(arena)
    IN  [arena |-> block_add_block_item(
                       Append(arena, [block_create(type) EXCEPT !.condition = cond]),
                       PTop(stk), id),
         stk |-> Append(stk, id)]

parse_plain(arena, stk, line) ==
    [arena |-> block_add_line(arena, PTop(stk), line), stk |-> stk]

parse_if(arena, stk, line) ==
    IF line_contains_end(line) THEN parse_plain(arena, stk, line)
    ELSE parse_open(arena, stk, "BLOCK_IF", extract_condition(line, "IF"))

\* an ELSEIF or ELSE opened as a block inside the open one
nested_sibling(arena, stk, type, cond) == parse_open(arena, stk, type, cond)

\* ELSEIF and ELSE: pop the top and hang the new block on the popped block's children
parse_sibling(arena, stk, type, cond) ==
    IF Len(stk) > 1
    THEN LET id == NewId(arena)
         IN  [arena |-> block_add_child(
                            Append(arena, [block_create(type) EXCEPT !.condition = cond]),
                            PTop(stk), id),
              stk |-> Append(PPop(stk), id)]
    ELSE [arena |-> arena, stk |-> stk]

parse_case(arena, stk, line) ==
    IF Len(stk) > 1
    THEN LET s1 == IF arena[PTop(stk)].type \in {"BLOCK_CASE", "BLOCK_DEFAULT"}
                   THEN PPop(stk) ELSE stk
             id == NewId(arena)
         IN  [arena |-> block_add_child(
                            Append(arena, [block_create("BLOCK_CASE") EXCEPT
                                              !.condition = extract_condition(line, "CASE")]),
                            PTop(s1), id),
              stk |-> Append(s1, id)]
    ELSE [arena |-> arena, stk |-> stk]

parse_default(arena, stk) ==
    IF Len(stk) > 1
    THEN LET s1 == IF arena[PTop(stk)].type = "BLOCK_CASE" THEN PPop(stk) ELSE stk
             id == NewId(arena)
         IN  [arena |-> block_add_child(Append(arena, block_create("BLOCK_DEFAULT")),
                                        PTop(s1), id),
              stk |-> Append(s1, id)]
    ELSE [arena |-> arena, stk |-> stk]

parse_proc(arena, stk, line) ==
    LET id == NewId(arena)
        h  == ProcHeader(line)
    IN  [arena |-> block_add_block_item(
                       Append(arena, [block_create("BLOCK_PROC") EXCEPT
                                         !.proc_name = h.proc_name,
                                         !.proc_params = h.proc_params]),
                       PTop(stk), id),
         stk |-> Append(stk, id)]

\* an END that pops whatever is on the stack, the root too
unguarded_end(arena, stk) == [arena |-> arena, stk |-> PPop(stk)]

parse_end(arena, stk) ==
    IF Len(stk) > 1
    THEN LET current_type == arena[PTop(stk)].type
             s1 == PPop(stk)
         IN  [arena |-> arena,
              stk |-> IF /\ Len(s1) > 1
                         /\ current_type \in {"BLOCK_CASE", "BLOCK_DEFAULT"}
                         /\ arena[PTop(s1)].type = "BLOCK_SWITCH"
                      THEN PPop(s1) ELSE s1]
    ELSE [arena |-> arena, stk |-> stk]

LoopKeywords == {"WHILE", "FOR", "FOREACH", "SWITCH"}

\* The keyword (upper case) a line starts with, "" for a blank or comment line
\* and "LINE" for any other line
LineKind(line) ==
    LET p   == skip_whitespace(line, 1)
        tok == bcl_strtoupper(get_first_token(line))
    IN  IF At(line, p) = "" \/ At(line, p) = "#" THEN ""
        ELSE IF tok \in {"IF", "ELSEIF", "ELSE", "CASE", "DEFAULT", "PROC", "END"}
                            \cup LoopKeywords
             THEN tok
        ELSE "LINE"


(***************************************************************************)
(* Numbers.  strtod/atof on an optionally signed run of decimal digits and *)
(* printf("%.0f") of an integral double.                                   *)
(***************************************************************************)
DigitsEnd(s, i) == ScanWhile(s, i, DigitSet)

RECURSIVE DigitsValue(_)
DigitsValue(d) ==
    IF d = "" THEN 0
    ELSE 10 * DigitsValue(SubSeq(d, 1, Len(d) - 1)) + DigitOf[At(d, Len(d))]

\* strtod(s, &endptr): the value and the index of *endptr
strtod(s) ==
    LET b    == skip_whitespace(s, 1)
        sgn  == At(s, b) \in {"-", "+"}
        d    == IF sgn THEN b + 1 ELSE b
        e    == DigitsEnd(s, d)
    IN  IF e = d THEN [value |-> 0, endptr |-> 1]
        ELSE [value |-> IF At(s, b) = "-" THEN 0 - DigitsValue(SubSeq(s, d, e - 1))
                        ELSE DigitsValue(SubSeq(s, d, e - 1)),
              endptr |-> e]

\* a conversion that drops the sign
atof_unsigned(s) == IF strtod(s).value < 0 THEN 0 - strtod(s).value ELSE strtod(s).value

atof(s) == strtod(s).value

bcl_str_to_number(s) ==
    IF s = "" THEN [ok |-> FALSE, value |-> 0]
    ELSE [ok |-> skip_whitespace(s, strtod(s).endptr) > Len(s), value |-> strtod(s).value]

RECURSIVE NatToStr(_)
NatToStr(n) ==
    IF n < 10 THEN At(DigitChars, n + 1)
    ELSE NatToStr(n \div 10) \o At(DigitChars, (n % 10) + 1)

\* snprintf(buf, "%.0f", n)
FormatNumber(n) == IF n < 0 THEN "-" \o NatToStr(0 - n) ELSE NatToStr(n)

(***************************************************************************)
(* bcl_hash.c: a table is a function from lower-cased keys to values       *)
(***************************************************************************)
bcl_hash_create == [k \in {} |-> ""]

bcl_hash_exists(table, key) == bcl_strtolower(key) \in DOMAIN table

bcl_hash_get(table, key) == table[bcl_strtolower(key)]

bcl_hash_set(table, key, value) == (bcl_strtolower(key) :> value) @@ table

bcl_hash_remove(table, key) ==
    [k \in (DOMAIN table) \ {bcl_strtolower(key)} |-> table[k]]

(***************************************************************************)
(* bcl_interp.c: scopes and variables.  gv is interp->global_vars and ss   *)
(* is interp->scope_stack (scope_depth is its length).                     *)
(***************************************************************************)
scope_create ==
    [vars |-> bcl_hash_create, global_refs |-> bcl_hash_create,
     global_prefixes |-> bcl_hash_create]

\* get_current_scope(interp) != NULL
has_scope(ss) == Len(ss) > 0

get_current_scope(ss) == ss[Len(ss)]

\* strchr(name, '(') and the prefix "name("
ArrayPrefix(name) ==
    IF IndexIn("(", name) > 0 THEN SubSeq(name, 1, IndexIn("(", name)) ELSE ""

\* every name taken for a global one
always_global(ss, name) == TRUE

is_global_var(ss, name) ==
    \/ ~has_scope(ss)
    \/ bcl_hash_exists(get_current_scope(ss).global_refs, name)
    \/ /\ IndexIn("(", name) > 0
       /\ IndexIn("(", name) < 256
       /\ bcl_hash_exists(get_current_scope(ss).global_prefixes, ArrayPrefix(name))

\* The variable state [gv, ss] after bcl_var_set(interp, name, value)
bcl_var_set(gv, ss, name, value) ==
    IF is_global_var(ss, name)
    THEN [gv |-> bcl_hash_set(gv, name, value), ss |-> ss]
    ELSE [gv |-> gv,
          ss |-> [ss EXCEPT ![Len(ss)].vars = bcl_hash_set(@, name, value)]]

bcl_var_exists(gv, ss, name) ==
    \/ has_scope(ss) /\ bcl_hash_exists(get_current_scope(ss).vars, name)
    \/ bcl_hash_exists(gv, name)

\* bcl_var_get(interp, name), defined where bcl_var_exists holds
bcl_var_get(gv, ss, name) ==
    IF has_scope(ss) /\ bcl_hash_exists(get_current_scope(ss).vars, name)
    THEN bcl_hash_get(get_current_scope(ss).vars, name)
    ELSE bcl_hash_get(gv, name)

\* The value appended for a variable reference: unset variables give ""
VarText(gv, ss, name) ==
    IF bcl_var_exists(gv, ss, name) THEN bcl_var_get(gv, ss, name) ELSE ""

bcl_var_unset(gv, ss, name) ==
    IF has_scope(ss) /\ bcl_hash_exists(get_current_scope(ss).vars, name)
    THEN [gv |-> gv, ss |-> [ss EXCEPT ![Len(ss)].vars = bcl_hash_remove(@, name)]]
    ELSE [gv |-> bcl_hash_remove(gv, name), ss |-> ss]

(***************************************************************************)
(* bcl_parser.c: tokenizer, escape decoding, variable expansion            *)
(***************************************************************************)
is_comment(line) == At(line, skip_whitespace(line, 1)) = "#"

\* The index of the closing double quote (or of the NUL) of a token opened before p
RECURSIVE DQuoteEnd(_, _)
DQuoteEnd(s, p) ==
    IF At(s, p) = "" \/ At(s, p) = "\"" THEN p
    ELSE IF At(s, p) = "\\" /\ At(s, p + 1) # "" THEN DQuoteEnd(s, p + 2)
    ELSE DQuoteEnd(s, p + 1)

\* The index of the ] that brings bracket_count to 0 (or of the NUL)
RECURSIVE BracketEnd(_, _, _)
BracketEnd(s, p, count) ==
    IF At(s, p) = "" THEN p
    ELSE IF At(s, p) = "[" THEN BracketEnd(s, p + 1, count + 1)
    ELSE IF At(s, p) = "]" THEN (IF count = 1 THEN p ELSE BracketEnd(s, p + 1, count - 1))
    ELSE BracketEnd(s, p + 1, count)

\* bcl_next_token(line, &pos, token, size): whether a token was extracted, the
\* token and the new pos (1-based)
bcl_next_token(line, pos) ==
    LET p == skip_whitespace(line, pos)
        c == At(line, p)
    IN  IF c = "" \/ c = "#" THEN [ok |-> FALSE, token |-> "", pos |-> p]
        ELSE IF c = "\"" THEN
            LET e == DQuoteEnd(line, p + 1)
            IN  [ok |-> TRUE, token |-> SubSeq(line, p + 1, e - 1),
                 pos |-> IF At(line, e) = "\"" THEN e + 1 ELSE e]
        ELSE IF c = "'" THEN
            LET e == ScanUntil(line, p + 1, {"'"})
            IN  [ok |-> TRUE, token |-> SubSeq(line, p + 1, e - 1),
                 pos |-> IF At(line, e) = "'" THEN e + 1 ELSE e]
        ELSE IF c = "[" THEN
            LET e == BracketEnd(line, p + 1, 1)
            IN  [ok |-> TRUE, token |-> SubSeq(line, p + 1, e - 1),
                 pos |-> IF At(line, e) = "]" THEN e + 1 ELSE e]
        ELSE
            LET e == ScanUntil(line, p, SpaceSet \cup {"#", "[", "]"})
            IN  [ok |-> e > p, token |-> SubSeq(line, p, e - 1), pos |-> e]

\* The raw tokens of a line (bcl_parse_line's first loop)
RECURSIVE RawTokens(_, _)
RawTokens(line, pos) ==
    LET t == bcl_next_token(line, pos)
    IN  IF t.ok THEN <<t.token>> \o RawTokens(line, t.pos) ELSE <<>>

needs_escape(c) == c \in {"n", "t", "r", "f", "\\", "\"", "'", "u"}

process_escape(c) ==
    CASE c = "n" -> "\n"
      [] c = "t" -> "\t"
      [] c = "r" -> "\r"
      [] c = "f" -> "\f"
      [] OTHER   -> c

\* bcl_decode_escapes, from index i on (the bell and backspace escapes \a and
\* \b have no TLA+ character and are left out)
RECURSIVE bcl_decode_escapes(_, _)
bcl_decode_escapes(str, i) ==
    LET c == At(str, i)
        n == At(str, i + 1)
    IN  IF c = "" THEN ""
        ELSE IF c = "\\" /\ n # "" THEN
            IF n = "u" /\ i + 5 < Len(str) + 1 THEN "\\" \o bcl_decode_escapes(str, i + 1)
            ELSE IF n \in {"d", "D", "w", "W", "s", "S", "[", "]"}
                 THEN "\\" \o n \o bcl_decode_escapes(str, i + 2)
            ELSE IF needs_escape(n) THEN process_escape(n) \o bcl_decode_escapes(str, i + 2)
            ELSE "\\" \o bcl_decode_escapes(str, i + 1)
        ELSE c \o bcl_decode_escapes(str, i + 1)

\* The end of a variable name starting at i
VarNameEnd(s, i) == ScanWhile(s, i, AlphaSet \cup DigitSet \cup {"_"})

\* The index of the ) closing an array index opened before p (or of the NUL)
RECURSIVE ParenEnd(_, _, _)
ParenEnd(s, p, depth) ==
    IF At(s, p) = "" THEN p
    ELSE IF At(s, p) = "(" THEN ParenEnd(s, p + 1, depth + 1)
    ELSE IF At(s, p) = ")" THEN (IF depth = 1 THEN p ELSE ParenEnd(s, p + 1, depth - 1))
    ELSE ParenEnd(s, p + 1, depth)

RECURSIVE bcl_expand_vars(_, _, _)
bcl_expand_vars(gv, ss, str) ==
    IF str = "" THEN ""
    ELSE IF At(str, 1) = "$" /\ At(str, 2) # "" THEN
        LET e       == VarNameEnd(str, 2)
            varname == SubSeq(str, 2, e - 1)
        IN  IF At(str, e) = "(" THEN
                LET q     == ParenEnd(str, e + 1, 1)
                    index == bcl_expand_vars(gv, ss, SubSeq(str, e + 1, q - 1))
                    rest  == IF At(str, q) = ")" THEN From(str, q + 1) ELSE From(str, q)
                IN  VarText(gv, ss, varname \o "(" \o index \o ")")
                        \o bcl_expand_vars(gv, ss, rest)
            ELSE VarText(gv, ss, varname) \o bcl_expand_vars(gv, ss, From(str, e))
    ELSE At(str, 1) \o bcl_expand_vars(gv, ss, From(str, 2))

\* bcl_parse_line after the subcommands of the line have been expanded
RECURSIVE ProcessTokens(_, _, _)
ProcessTokens(gv, ss, raw) ==
    IF raw = <<>> THEN <<>>
    ELSE <<bcl_expand_vars(gv, ss, bcl_decode_escapes(Head(raw), 1))>>
            \o ProcessTokens(gv, ss, Tail(raw))

\* The whitespace-separated tokens handed to EXPR by eval_block_condition
CondTokens(expanded) == strtok_all(expanded, " \t\n\r\f")

RECURSIVE JoinArgs(_)
JoinArgs(argv) ==
    IF argv = <<>> THEN ""
    ELSE IF Len(argv) = 1 THEN argv[1]
    ELSE argv[1] \o " " \o JoinArgs(Tail(argv))

(***************************************************************************)
(* bcl_expr.c: shunting-yard evaluation.  Values are integers: the         *)
(* operands and results of the modelled scripts are integral doubles.      *)
(***************************************************************************)
get_precedence(type) ==
    CASE type = "TOK_OR" -> 1
      [] type = "TOK_AND" -> 2
      [] type \in {"TOK_EQ", "TOK_NE"} -> 3
      [] type \in {"TOK_LT", "TOK_LE", "TOK_GT", "TOK_GE"} -> 4
      [] type \in {"TOK_PLUS", "TOK_MINUS"} -> 5
      [] type \in {"TOK_MULTIPLY", "TOK_DIVIDE", "TOK_MODULO"} -> 6
      [] type = "TOK_NOT" -> 7
      [] type = "TOK_POWER" -> 8
      [] OTHER -> 0

is_right_associative(type) == type \in {"TOK_POWER", "TOK_NOT"}

ExprTok(type, value, name, pos) ==
    [type |-> type, value |-> value, func_name |-> name, pos |-> pos]

is_func_char(c) == isalpha(c) \/ c = "_"

TwoCharOps ==
    [op \in {"**", "<=", ">=", "!=", "&&", "||", "=="} |->
        CASE op = "**" -> "TOK_POWER" [] op = "<=" -> "TOK_LE" [] op = ">=" -> "TOK_GE"
          [] op = "!=" -> "TOK_NE" [] op = "&&" -> "TOK_AND" [] op = "||" -> "TOK_OR"
          [] OTHER -> "TOK_EQ"]

OneCharOps ==
    [op \in {"+", "-", "*", "/", "%", "^", "(", ")", ",", "<", ">", "!"} |->
        CASE op = "+" -> "TOK_PLUS" [] op = "-" -> "TOK_MINUS" [] op = "*" -> "TOK_MULTIPLY"
          [] op = "/" -> "TOK_DIVIDE" [] op = "%" -> "TOK_MODULO" [] op = "^" -> "TOK_POWER"
          [] op = "(" -> "TOK_LPAREN" [] op = ")" -> "TOK_RPAREN" [] op = "," -> "TOK_COMMA"
          [] op = "<" -> "TOK_LT" [] op = ">" -> "TOK_GT" [] OTHER -> "TOK_NOT"]

\* parse_expr_token(expr + pos - 1, &tok): the token and the position after it
parse_expr_token(expr, pos) ==
    LET p == skip_whitespace(expr, pos)
        c == At(expr, p)
    IN  IF c = "" THEN ExprTok("TOK_END", 0, "", p)
        ELSE IF isdigit(c) THEN
            LET e == DigitsEnd(expr, p)
            IN  ExprTok("TOK_NUMBER", DigitsValue(SubSeq(expr, p, e - 1)), "", e)
        ELSE IF is_func_char(c) THEN
            LET e    == ScanWhile(expr, p, AlphaSet \cup {"_"})
                name == SubSeq(expr, p, e - 1)
            IN  IF bcl_strcasecmp(name, "AND") THEN ExprTok("TOK_AND", 0, name, e)
                ELSE IF bcl_strcasecmp(name, "OR") THEN ExprTok("TOK_OR", 0, name, e)
                ELSE IF bcl_strcasecmp(name, "NOT") THEN ExprTok("TOK_NOT", 0, name, e)
                ELSE ExprTok("TOK_FUNCTION", 0, name, e)
        ELSE IF At(expr, p + 1) # "" /\ SubSeq(expr, p, p + 1) \in DOMAIN TwoCharOps
             THEN ExprTok(TwoCharOps[SubSeq(expr, p, p + 1)], 0, "", p + 2)
        ELSE IF c \in DOMAIN OneCharOps THEN ExprTok(OneCharOps[c], 0, "", p + 1)
        ELSE ExprTok("TOK_END", 0, "", p)

\* pow(left, right) for an integral exponent >= 0
RECURSIVE IntPow(_, _)
IntPow(b, e) == IF e <= 0 THEN 1 ELSE b * IntPow(b, e - 1)

\* fmod(left, right) for integral operands, right # 0: the sign of the dividend
IntFmod(l, r) ==
    LET a == IF l < 0 THEN 0 - l ELSE l
        b == IF r < 0 THEN 0 - r ELSE r
    IN  IF b = 0 THEN 0 ELSE IF l < 0 THEN 0 - (a % b) ELSE a % b

Bool01(b) == IF b THEN 1 ELSE 0

\* apply_operator; the quotient of TOK_DIVIDE is modelled where it is integral
apply_operator(op, left, right) ==
    CASE op = "TOK_PLUS" -> left + right
      [] op = "TOK_MINUS" -> left - right
      [] op = "TOK_MULTIPLY" -> left * right
      [] op = "TOK_DIVIDE" ->
            IF right # 0 THEN
                (IF (left < 0) = (right < 0)
                 THEN (IF left < 0 THEN (0 - left) \div (0 - right) ELSE left \div right)
                 ELSE 0 - ((IF left < 0 THEN 0 - left ELSE left)
                              \div (IF right < 0 THEN 0 - right ELSE right)))
            ELSE 0
      [] op = "TOK_MODULO" -> IntFmod(left, right)
      [] op = "TOK_POWER" -> IntPow(left, right)
      [] op = "TOK_LT" -> Bool01(left < right)
      [] op = "TOK_LE" -> Bool01(left <= right)
      [] op = "TOK_GT" -> Bool01(left > right)
      [] op = "TOK_GE" -> Bool01(left >= right)
      [] op = "TOK_EQ" -> Bool01(left = right)
      [] op = "TOK_NE" -> Bool01(left # right)
      [] op = "TOK_AND" -> Bool01(left # 0 /\ right # 0)
      [] op = "TOK_OR" -> Bool01(left # 0 \/ right # 0)
      [] OTHER -> 0

is_function2(name) ==
    \E f \in {"pow", "hypot", "atan2", "min", "max", "fmod"} : bcl_strcasecmp(name, f)

\* eval_function for the functions that map integers to integers
eval_function(name, arg) ==
    LET n == bcl_strtolower(name)
    IN  CASE n = "abs" -> IF arg < 0 THEN 0 - arg ELSE arg
          [] n \in {"int", "double", "ceil", "floor", "round"} -> arg
          [] n = "sign" -> IF arg > 0 THEN 1 ELSE IF arg < 0 THEN 0 - 1 ELSE 0
          [] OTHER -> 0

eval_function2(name, arg1, arg2) ==
    LET n == bcl_strtolower(name)
    IN  CASE n = "pow" -> IntPow(arg1, arg2)
          [] n = "min" -> IF arg1 < arg2 THEN arg1 ELSE arg2
          [] n = "max" -> IF arg1 > arg2 THEN arg1 ELSE arg2
          [] n = "fmod" -> IntFmod(arg1, arg2)
          [] OTHER -> 0

\* The value stack after applying a popped function
ApplyFunction(vs, op) ==
    LET n == Len(vs)
    IN  IF is_function2(op.func_name)
        THEN (IF n >= 2
              THEN Append(SubSeq(vs, 1, n - 2), eval_function2(op.func_name, vs[n - 1], vs[n]))
              ELSE vs)
        ELSE (IF n >= 1
              THEN Append(SubSeq(vs, 1, n - 1), eval_function(op.func_name, vs[n]))
              ELSE vs)

\* The value stack after applying a popped operator: NOT negates the top, any
\* other token is applied to the two topmost values when there are two
ApplyOp(vs, op) ==
    LET n == Len(vs)
    IN  IF op.type = "TOK_NOT" THEN
            (IF n >= 1 THEN [vs EXCEPT ![n] = Bool01(vs[n] = 0)] ELSE vs)
        ELSE IF n >= 2
             THEN Append(SubSeq(vs, 1, n - 2), apply_operator(op.type, vs[n - 1], vs[n]))
        ELSE vs

\* TOK_RPAREN: pop and apply until the matching (, then a function before it
RECURSIVE CloseParen(_, _)
CloseParen(vs, os) ==
    IF os # <<>> /\ os[Len(os)].type # "TOK_LPAREN"
    THEN CloseParen(IF os[Len(os)].type = "TOK_FUNCTION"
                    THEN ApplyFunction(vs, os[Len(os)]) ELSE ApplyOp(vs, os[Len(os)]),
                    SubSeq(os, 1, Len(os) - 1))
    ELSE LET o1 == IF os # <<>> THEN SubSeq(os, 1, Len(os) - 1) ELSE os
         IN  IF o1 # <<>> /\ o1[Len(o1)].type = "TOK_FUNCTION"
             THEN [vs |-> ApplyFunction(vs, o1[Len(o1)]), os |-> SubSeq(o1, 1, Len(o1) - 1)]
             ELSE [vs |-> vs, os |-> o1]

\* An operator token: pop and apply the operators that bind at least as tightly
RECURSIVE PushOperator(_, _, _)
PushOperator(vs, os, tok) ==
    IF /\ os # <<>>
       /\ os[Len(os)].type # "TOK_LPAREN"
       /\ LET prec1 == get_precedence(tok.type)
              prec2 == get_precedence(os[Len(os)].type)
          IN  prec2 > prec1 \/ (prec2 = prec1 /\ ~is_right_associative(tok.type))
    THEN PushOperator(ApplyOp(vs, os[Len(os)]), SubSeq(os, 1, Len(os) - 1), tok)
    ELSE [vs |-> vs, os |-> Append(os, tok)]

\* The operators left on the stack at the end of the expression
RECURSIVE DrainOperators(_, _)
DrainOperators(vs, os) ==
    IF os = <<>> THEN vs
    ELSE DrainOperators(ApplyOp(vs, os[Len(os)]), SubSeq(os, 1, Len(os) - 1))

RECURSIVE ExprLoop(_, _, _, _)
ExprLoop(expr, pos, vs, os) ==
    LET tok == parse_expr_token(expr, pos)
    IN  CASE tok.type = "TOK_END" -> DrainOperators(vs, os)
          [] tok.type = "TOK_NUMBER" -> ExprLoop(expr, tok.pos, Append(vs, tok.value), os)
          [] tok.type \in {"TOK_FUNCTION", "TOK_LPAREN"} ->
                ExprLoop(expr, tok.pos, vs, Append(os, tok))
          [] tok.type = "TOK_COMMA" -> ExprLoop(expr, tok.pos, vs, os)
          [] tok.type = "TOK_RPAREN" ->
                ExprLoop(expr, tok.pos, CloseParen(vs, os).vs, CloseParen(vs, os).os)
          [] OTHER ->
                ExprLoop(expr, tok.pos, PushOperator(vs, os, tok).vs,
                         PushOperator(vs, os, tok).os)

\* bcl_cmd_expr on argc >= 1 arguments: the result string
bcl_cmd_expr(argv) ==
    LET vs == ExprLoop(JoinArgs(argv), 1, <<>>, <<>>)
    IN  FormatNumber(IF vs # <<>> THEN vs[Len(vs)] ELSE 0)

bcl_value_to_bool(str) == str # "" /\ str # "0"

(***************************************************************************)
(* The interpreter state (bcl_interp_t), the C call stack and the host     *)
(***************************************************************************)
VARIABLES
    blocks,        \* the heap of bcl_block_t
    procedures,    \* interp->procedures: name -> [name, params, body_block]
    extensions,    \* interp->extensions: the paths loaded, the last one first
    extension_cmds,\* interp->extension_cmds: name -> the function registered
    global_vars,   \* interp->global_vars
    scope_stack,   \* interp->scope_stack[0 .. scope_depth-1]
    return_value,  \* interp->return_value: <<>> is NULL, <<v>> a value
    exit_code,     \* interp->exit_code
    error_msg,     \* interp->error_msg
    out,           \* the lines written to stdout
    stack,         \* the C call stack, innermost frame last
    ret,           \* what the function that returned last has returned
    input,         \* the units the host has still to evaluate
    results,       \* the signal each evaluated unit returned to the host
    scenario       \* which script the host runs (never changes)

vars == <<blocks, procedures, extensions, extension_cmds, global_vars, scope_stack,
          return_value, exit_code, error_msg, out, stack, ret, input, results, scenario>>

interp_vars == <<procedures, extensions, extension_cmds, global_vars, scope_stack,
                 return_value, exit_code, error_msg, out>>

host_vars == <<input, results, scenario>>

ext_vars == <<extensions, extension_cmds>>

Top == stack[Len(stack)]

Below == SubSeq(stack, 1, Len(stack) - 1)

InFn(fn, pc) == stack # <<>> /\ Top.fn = fn /\ Top.pc = pc

\* A returned value: the signal, the result string, the argv of bcl_parse_line
\* and the truth value of eval_block_condition
Ret(res, val) == [res |-> res, val |-> val, argv |-> <<>>, flag |-> FALSE]

NoRet == Ret("BCL_OK", "")

\* return r: pop the frame of the running function
Return(r) == stack' = Below /\ ret' = r

\* call a function: the caller moves to pc and the callee's frame is pushed
Call(pc, frame) ==
    stack' = Append([stack EXCEPT ![Len(stack)].pc = pc], frame) /\ ret' = NoRet

\* the running function goes on with its frame changed to f
Goto(f) == stack' = [stack EXCEPT ![Len(stack)] = f] /\ ret' = NoRet

\* return f(...): the running function's frame is replaced by the callee's
TailCall(frame) == Goto(frame)

ParseFrame(code, root) ==
    [fn |-> "bcl_parse_blocks", pc |-> "line", lines |-> strtok_all(code, "\n"), i |-> 1,
     stk |-> <<root>>, root |-> root]

ExecBlockFrame(b) ==
    [fn |-> "bcl_exec_block", pc |-> "enter", block |-> b, i |-> 0, fin |-> 0, paso |-> 0,
     var_copy |-> "", saveptr |-> ""]

ItemsFrame(b) == [fn |-> "exec_block_items", pc |-> "next", block |-> b, i |-> 1]

EvalFrame(code) == [fn |-> "bcl_eval", pc |-> "next", saveptr |-> code, last_result |-> ""]

ParseLineFrame(line) == [fn |-> "bcl_parse_line", pc |-> "enter", line |-> line]

ExpandFrame(str) ==
    [fn |-> "bcl_expand_subcommands", pc |-> "scan", str |-> str, i |-> 1, result |-> ""]

CondFrame(condition) ==
    [fn |-> "eval_block_condition", pc |-> "enter", condition |-> condition]

DispatchFrame(argv) ==
    [fn |-> "bcl_dispatch_command", pc |-> "enter", name |-> Head(argv), argv |-> Tail(argv)]

(***************************************************************************)
(* The host: the REPL hands each complete unit to bcl_eval_structured when *)
(* it spans several lines and to bcl_eval when it is one line, and stops   *)
(* at Exit (bcl_repl.c).                                                   *)
(* out is what PUTS writes; the echo of a one-line unit's result by the    *)
(* terminal front end is not part of it.                                   *)
(***************************************************************************)
HostIdle ==
    /\ stack = <<>>
    /\ input # <<>>
    /\ IF results = <<>> THEN TRUE ELSE results[Len(results)] # "BCL_EXIT"

HostEvalStructured ==
    /\ HostIdle
    /\ IndexIn("\n", Head(input)) > 0
    /\ blocks' = Append(blocks, block_create("BLOCK_NONE"))
    /\ stack' = <<[fn |-> "bcl_eval_structured", pc |-> "exec"],
                  ParseFrame(Head(input), Len(blocks) + 1)>>
    /\ input' = Tail(input)
    /\ ret' = NoRet
    /\ UNCHANGED <<interp_vars, results, scenario>>

HostEval ==
    /\ HostIdle
    /\ IndexIn("\n", Head(input)) = 0
    /\ stack' = <<[fn |-> "repl", pc |-> "eval"], EvalFrame(Head(input))>>
    /\ input' = Tail(input)
    /\ ret' = NoRet
    /\ UNCHANGED <<blocks, interp_vars, results, scenario>>

\* bcl_eval_structured or bcl_eval has returned to the host
HostResult ==
    /\ Len(stack) = 1
    /\ Top.fn \in {"bcl_eval_structured", "repl"}
    /\ results' = Append(results, ret.res)
    /\ stack' = <<>>
    /\ ret' = NoRet
    /\ UNCHANGED <<blocks, interp_vars, input, scenario>>

(***************************************************************************)
(* bcl_parse_blocks, one source line per step                              *)
(***************************************************************************)
Parsing(kinds) ==
    /\ InFn("bcl_parse_blocks", "line")
    /\ Top.i <= Len(Top.lines)
    /\ LineKind(Top.lines[Top.i]) \in kinds

\* the arena and the stack of open blocks become those of p
Parsed(p) ==
    /\ blocks' = p.arena
    /\ Goto([Top EXCEPT !.stk = p.stk, !.i = @ + 1])
    /\ UNCHANGED <<interp_vars, input, results, scenario>>

ParseBlank == Parsing({""}) /\ Parsed([arena |-> blocks, stk |-> Top.stk])

ParseIf == Parsing({"IF"}) /\ Parsed(parse_if(blocks, Top.stk, Top.lines[Top.i]))

ParseElseIf ==
    /\ Parsing({"ELSEIF"})
    /\ Parsed(parse_sibling(blocks, Top.stk, "BLOCK_ELSEIF",
                            extract_condition(Top.lines[Top.i], "ELSEIF")))

ParseElse == Parsing({"ELSE"}) /\ Parsed(parse_sibling(blocks, Top.stk, "BLOCK_ELSE", ""))

ParseLoop ==
    /\ Parsing(LoopKeywords)
    /\ LET k == LineKind(Top.lines[Top.i])
       IN  Parsed(parse_open(blocks, Top.stk, "BLOCK_" \o k,
                             extract_condition(Top.lines[Top.i], k)))

ParseCase == Parsing({"CASE"}) /\ Parsed(parse_case(blocks, Top.stk, Top.lines[Top.i]))

ParseDefault == Parsing({"DEFAULT"}) /\ Parsed(parse_default(blocks, Top.stk))

ParseProc == Parsing({"PROC"}) /\ Parsed(parse_proc(blocks, Top.stk, Top.lines[Top.i]))

ParseEnd == Parsing({"END"}) /\ Parsed(parse_end(blocks, Top.stk))

ParsePlain == Parsing({"LINE"}) /\ Parsed(parse_plain(blocks, Top.stk, Top.lines[Top.i]))

\* return root; bcl_eval_structured goes on to bcl_exec_block(interp, root)
ParseDone ==
    /\ InFn("bcl_parse_blocks", "line")
    /\ Top.i > Len(Top.lines)
    /\ TailCall(ExecBlockFrame(Top.root))
    /\ UNCHANGED <<blocks, interp_vars, input, results, scenario>>

(***************************************************************************)
(* bcl_eval: one line of the code per iteration                            *)
(***************************************************************************)
EvalLine ==
    /\ InFn("bcl_eval", "next")
    /\ strtok_r(Top.saveptr, "\n").found
    /\ Call("argv", ParseLineFrame(strtok_r(Top.saveptr, "\n").tok))
    /\ UNCHANGED <<blocks, interp_vars, host_vars>>

\* argv && argc > 0: dispatch argv[0]; otherwise go on with the next line
EvalDispatch ==
    /\ InFn("bcl_eval", "argv")
    /\ IF ret.argv # <<>>
       THEN Call("res", DispatchFrame(ret.argv))
       ELSE Goto([Top EXCEPT !.pc = "next", !.saveptr = strtok_r(@, "\n").save])
    /\ UNCHANGED <<blocks, interp_vars, host_vars>>

\* any signal other than Ok ends the evaluation with that signal
EvalAfter ==
    /\ InFn("bcl_eval", "res")
    /\ IF ret.res # "BCL_OK"
       THEN Return(Ret(ret.res, ret.val))
       ELSE Goto([Top EXCEPT !.pc = "next", !.saveptr = strtok_r(@, "\n").save,
                             !.last_result = ret.val])
    /\ UNCHANGED <<blocks, interp_vars, host_vars>>

EvalDone ==
    /\ InFn("bcl_eval", "next")
    /\ ~strtok_r(Top.saveptr, "\n").found
    /\ Return(Ret("BCL_OK", Top.last_result))
    /\ UNCHANGED <<blocks, interp_vars, host_vars>>

(***************************************************************************)
(* bcl_parse_line                                                          *)
(***************************************************************************)
ParseLineEnter ==
    /\ InFn("bcl_parse_line", "enter")
    /\ IF is_comment(Top.line)
       THEN Return(Ret("BCL_OK", ""))
       ELSE Call("expanded", ExpandFrame(Top.line))
    /\ UNCHANGED <<blocks, interp_vars, host_vars>>

ParseLineTokens ==
    /\ InFn("bcl_parse_line", "expanded")
    /\ Return([Ret("BCL_OK", "") EXCEPT
                 !.argv = ProcessTokens(global_vars, scope_stack, RawTokens(ret.val, 1))])
    /\ UNCHANGED <<blocks, interp_vars, host_vars>>

(***************************************************************************)
(* bcl_expand_subcommands and bcl_eval_subcommand                          *)
(***************************************************************************)
\* the index of the next [ at or after i, or Len(str) + 1
NextBracket(str, i) == ScanUntil(str, i, {"["})

\* a result with white space is wrapped in double quotes, its quotes escaped
RECURSIVE EscapeQuotes(_)
EscapeQuotes(s) ==
    IF s = "" THEN ""
    ELSE (IF At(s, 1) = "\"" THEN "\\\"" ELSE At(s, 1)) \o EscapeQuotes(From(s, 2))

ProtectResult(cmd_result) ==
    IF \E j \in 1..Len(cmd_result) : isspace(At(cmd_result, j))
    THEN "\"" \o EscapeQuotes(cmd_result) \o "\""
    ELSE cmd_result

ExpandDone ==
    /\ InFn("bcl_expand_subcommands", "scan")
    /\ NextBracket(Top.str, Top.i) > Len(Top.str)
    /\ Return(Ret("BCL_OK", Top.result \o From(Top.str, Top.i)))
    /\ UNCHANGED <<blocks, interp_vars, host_vars>>

\* a [ at start - 1: the nested subcommands of its content are expanded first
ExpandOpen ==
    /\ InFn("bcl_expand_subcommands", "scan")
    /\ NextBracket(Top.str, Top.i) <= Len(Top.str)
    /\ LET start == NextBracket(Top.str, Top.i) + 1
           e     == BracketEnd(Top.str, start, 1)
       IN  stack' = Append([stack EXCEPT ![Len(stack)] =
                               [Top EXCEPT !.pc = "inner",
                                           !.result = @ \o SubSeq(Top.str, Top.i, start - 2),
                                           !.i = IF At(Top.str, e) = "]" THEN e + 1 ELSE e]],
                           ExpandFrame(SubSeq(Top.str, start, e - 1)))
    /\ ret' = NoRet
    /\ UNCHANGED <<blocks, interp_vars, host_vars>>

\* bcl_eval_subcommand(interp, expanded_cmd)
ExpandEval ==
    /\ InFn("bcl_expand_subcommands", "inner")
    /\ Call("cmd", EvalFrame(ret.val))
    /\ UNCHANGED <<blocks, interp_vars, host_vars>>

\* bcl_eval_subcommand gives "" unless the evaluation returned Ok
ExpandAppend ==
    /\ InFn("bcl_expand_subcommands", "cmd")
    /\ LET cmd_result == IF ret.res # "BCL_OK" THEN "" ELSE ret.val
       IN  Goto([Top EXCEPT !.pc = "scan", !.result = @ \o ProtectResult(cmd_result)])
    /\ UNCHANGED <<blocks, interp_vars, host_vars>>

(***************************************************************************)
(* eval_block_condition                                                    *)
(***************************************************************************)
CondEnter ==
    /\ InFn("eval_block_condition", "enter")
    /\ IF Top.condition = ""
       THEN Return(Ret("BCL_OK", ""))
       ELSE Call("expanded", ExpandFrame(Top.condition))
    /\ UNCHANGED <<blocks, interp_vars, host_vars>>

\* the truth value of the expanded text, evaluated by EXPR
ExprTruth(expanded) ==
    /\ CondTokens(expanded) # <<>>
    /\ bcl_value_to_bool(bcl_cmd_expr(CondTokens(expanded)))

CondEval ==
    /\ InFn("eval_block_condition", "expanded")
    /\ Return([Ret("BCL_OK", "") EXCEPT
                 !.flag = ExprTruth(bcl_expand_vars(global_vars, scope_stack, ret.val))])
    /\ UNCHANGED <<blocks, interp_vars, host_vars>>

(***************************************************************************)
(* exec_block_items                                                        *)
(***************************************************************************)
ItemsLine ==
    /\ InFn("exec_block_items", "next")
    /\ Top.i <= Len(blocks[Top.block].items)
    /\ blocks[Top.block].items[Top.i].type = "ITEM_LINE"
    /\ Call("argv", ParseLineFrame(blocks[Top.block].items[Top.i].line))
    /\ UNCHANGED <<blocks, interp_vars, host_vars>>

ItemsDispatch ==
    /\ InFn("exec_block_items", "argv")
    /\ IF ret.argv # <<>>
       THEN Call("res", DispatchFrame(ret.argv))
       ELSE Goto([Top EXCEPT !.pc = "next", !.i = @ + 1])
    /\ UNCHANGED <<blocks, interp_vars, host_vars>>

ItemsBlock ==
    /\ InFn("exec_block_items", "next")
    /\ Top.i <= Len(blocks[Top.block].items)
    /\ blocks[Top.block].items[Top.i].type = "ITEM_BLOCK"
    /\ Call("res", ExecBlockFrame(blocks[Top.block].items[Top.i].block))
    /\ UNCHANGED <<blocks, interp_vars, host_vars>>

\* a sequence that takes Break and Continue for itself and goes on
consumes_loop_signals ==
    /\ InFn("exec_block_items", "res")
    /\ IF ret.res \notin {"BCL_OK", "BCL_BREAK", "BCL_CONTINUE"}
       THEN Return(Ret(ret.res, ""))
       ELSE Goto([Top EXCEPT !.pc = "next", !.i = @ + 1])
    /\ UNCHANGED <<blocks, interp_vars, host_vars>>

\* if (res != BCL_OK) return res
ItemsAfter ==
    /\ InFn("exec_block_items", "res")
    /\ IF ret.res # "BCL_OK"
       THEN Return(Ret(ret.res, ""))
       ELSE Goto([Top EXCEPT !.pc = "next", !.i = @ + 1])
    /\ UNCHANGED <<blocks, interp_vars, host_vars>>

ItemsDone ==
    /\ InFn("exec_block_items", "next")
    /\ Top.i > Len(blocks[Top.block].items)
    /\ Return(Ret("BCL_OK", ""))
    /\ UNCHANGED <<blocks, interp_vars, host_vars>>

(***************************************************************************)
(* bcl_exec_block                                                          *)
(***************************************************************************)
ExecEnter(types) ==
    /\ InFn("bcl_exec_block", "enter")
    /\ Top.block # 0
    /\ blocks[Top.block].type \in types

\* bcl_set_error(interp, msg); return BCL_ERROR
Fail(msg) ==
    /\ error_msg' = msg
    /\ Return(Ret("BCL_ERROR", ""))

\* a loop that a Continue ends as a Break does
loop_ends_on_continue(again) ==
    IF ret.res \in {"BCL_BREAK", "BCL_CONTINUE"} THEN Return(Ret("BCL_OK", ""))
    ELSE IF ret.res = "BCL_OK" THEN Goto(again)
    ELSE Return(Ret(ret.res, ""))

\* a loop body has returned res: Break ends the loop with Ok, Continue and Ok go
\* on with the frame again, anything else is returned
LoopBody(again) ==
    IF ret.res = "BCL_BREAK" THEN Return(Ret("BCL_OK", ""))
    ELSE IF ret.res \in {"BCL_CONTINUE", "BCL_OK"} THEN Goto(again)
    ELSE Return(Ret(ret.res, ""))

\* BLOCK_NONE and BLOCK_ELSE: return exec_block_items(interp, block)
ExecSequence ==
    /\ ExecEnter({"BLOCK_NONE", "BLOCK_ELSE"})
    /\ TailCall(ItemsFrame(Top.block))
    /\ UNCHANGED <<blocks, interp_vars, host_vars>>

ExecIfCond ==
    /\ ExecEnter({"BLOCK_IF", "BLOCK_ELSEIF"})
    /\ Call("cond", CondFrame(blocks[Top.block].condition))
    /\ UNCHANGED <<blocks, interp_vars, host_vars>>

\* the children of an IF or ELSEIF block that are ELSEIF or ELSE blocks
Siblings(b) ==
    {i \in 1..Len(blocks[b].children) :
        blocks[blocks[b].children[i]].type \in {"BLOCK_ELSEIF", "BLOCK_ELSE"}}

\* condition true: the items of the block; false: the first ELSEIF/ELSE child
ExecIfBranch ==
    /\ InFn("bcl_exec_block", "cond")
    /\ blocks[Top.block].type \in {"BLOCK_IF", "BLOCK_ELSEIF"}
    /\ IF ret.flag THEN TailCall(ItemsFrame(Top.block))
       ELSE IF Siblings(Top.block) # {}
            THEN TailCall(ExecBlockFrame(blocks[Top.block].children[First(Siblings(Top.block))]))
       ELSE Return(Ret("BCL_OK", ""))
    /\ UNCHANGED <<blocks, interp_vars, host_vars>>

ExecWhileCond ==
    /\ ExecEnter({"BLOCK_WHILE"})
    /\ Call("test", CondFrame(blocks[Top.block].condition))
    /\ UNCHANGED <<blocks, interp_vars, host_vars>>

ExecWhileTest ==
    /\ InFn("bcl_exec_block", "test")
    /\ blocks[Top.block].type = "BLOCK_WHILE"
    /\ IF ret.flag THEN Call("body", ItemsFrame(Top.block)) ELSE Return(Ret("BCL_OK", ""))
    /\ UNCHANGED <<blocks, interp_vars, host_vars>>

ExecWhileBody ==
    /\ InFn("bcl_exec_block", "body")
    /\ blocks[Top.block].type = "BLOCK_WHILE"
    /\ LoopBody([Top EXCEPT !.pc = "enter"])
    /\ UNCHANGED <<blocks, interp_vars, host_vars>>

\* "inicio TO fin [STEP paso]" split by strtok_r on blank and tab
ForHeader(condition) ==
    LET t == strtok_all(condition, " \t")
    IN  [ok     |-> Len(t) >= 3 /\ bcl_strcasecmp(t[2], "TO"),
         inicio |-> IF Len(t) >= 1 THEN atof(t[1]) ELSE 0,
         fin    |-> IF Len(t) >= 3 THEN atof(t[3]) ELSE 0,
         paso   |-> IF Len(t) >= 5 /\ bcl_strcasecmp(t[4], "STEP") THEN atof(t[5]) ELSE 1]

ExecForEnter ==
    /\ ExecEnter({"BLOCK_FOR"})
    /\ LET h == ForHeader(blocks[Top.block].condition)
       IN  IF ~h.ok
           THEN Fail("FOR: invalid syntax, expected 'inicio TO fin [STEP paso]'")
           ELSE /\ Goto([Top EXCEPT !.pc = "test", !.i = h.inicio, !.fin = h.fin,
                                    !.paso = h.paso])
                /\ UNCHANGED error_msg
    /\ UNCHANGED <<blocks, procedures, ext_vars, global_vars, scope_stack, return_value, exit_code,
                   out, host_vars>>

\* (paso > 0 && i <= fin) || (paso < 0 && i >= fin): set __FOR and run the body
ExecForTest ==
    /\ InFn("bcl_exec_block", "test")
    /\ blocks[Top.block].type = "BLOCK_FOR"
    /\ IF (Top.paso > 0 /\ Top.i <= Top.fin) \/ (Top.paso < 0 /\ Top.i >= Top.fin)
       THEN LET v == bcl_var_set(global_vars, scope_stack, "__FOR", FormatNumber(Top.i))
            IN  /\ global_vars' = v.gv
                /\ scope_stack' = v.ss
                /\ Call("body", ItemsFrame(Top.block))
       ELSE /\ Return(Ret("BCL_OK", ""))
            /\ UNCHANGED <<global_vars, scope_stack>>
    /\ UNCHANGED <<blocks, procedures, ext_vars, return_value, exit_code, error_msg, out,
                   host_vars>>

ExecForBody ==
    /\ InFn("bcl_exec_block", "body")
    /\ blocks[Top.block].type = "BLOCK_FOR"
    /\ LoopBody([Top EXCEPT !.pc = "test", !.i = @ + Top.paso])
    /\ UNCHANGED <<blocks, interp_vars, host_vars>>

\* "var IN lista" or "var lista": the variable name and the list expression
ForeachHeader(condition) ==
    LET t1 == strtok_r(condition, " \t")
        t2 == strtok_r(t1.save, " \t")
    IN  [varname    |-> t1.tok,
         has_var    |-> t1.found,
         lista_expr |-> IF ~t1.found \/ ~t2.found THEN ""
                        ELSE IF t2.tok \in {"IN", "in"} THEN t2.save
                        ELSE IF t2.save # "" THEN t2.tok \o " " \o t2.save
                        ELSE t2.tok]

\* a list expression that starts with $ is the value of that variable, anything
\* else is the list itself
ListaVal(gv, ss, lista_expr) ==
    IF At(lista_expr, 1) = "$" THEN VarText(gv, ss, From(lista_expr, 2)) ELSE lista_expr

ExecForeachEnter ==
    /\ ExecEnter({"BLOCK_FOREACH"})
    /\ LET h == ForeachHeader(blocks[Top.block].condition)
       IN  IF ~h.has_var THEN Fail("FOREACH: missing variable name")
           ELSE IF h.lista_expr = "" THEN Fail("FOREACH: missing list")
           ELSE /\ Goto([Top EXCEPT !.pc = "test", !.var_copy = h.varname,
                            !.saveptr = ListaVal(global_vars, scope_stack, h.lista_expr)])
                /\ UNCHANGED error_msg
    /\ UNCHANGED <<blocks, procedures, ext_vars, global_vars, scope_stack, return_value, exit_code,
                   out, host_vars>>

\* item = strtok_r(..., " \t\n", &saveptr): bind the variable and run the body
ExecForeachTest ==
    /\ InFn("bcl_exec_block", "test")
    /\ blocks[Top.block].type = "BLOCK_FOREACH"
    /\ LET item == strtok_r(Top.saveptr, " \t\n")
       IN  IF item.found
           THEN LET v == bcl_var_set(global_vars, scope_stack, Top.var_copy, item.tok)
                IN  /\ global_vars' = v.gv
                    /\ scope_stack' = v.ss
                    /\ stack' = Append([stack EXCEPT ![Len(stack)] =
                                          [Top EXCEPT !.pc = "body", !.saveptr = item.save]],
                                       ItemsFrame(Top.block))
                    /\ ret' = NoRet
           ELSE /\ Return(Ret("BCL_OK", ""))
                /\ UNCHANGED <<global_vars, scope_stack>>
    /\ UNCHANGED <<blocks, procedures, ext_vars, return_value, exit_code, error_msg, out,
                   host_vars>>

ExecForeachBody ==
    /\ InFn("bcl_exec_block", "body")
    /\ blocks[Top.block].type = "BLOCK_FOREACH"
    /\ LoopBody([Top EXCEPT !.pc = "test"])
    /\ UNCHANGED <<blocks, interp_vars, host_vars>>

\* the first n elements of a sequence
Take(seq, n) == SubSeq(seq, 1, IF Len(seq) < n THEN Len(seq) ELSE n)

\* the parameters of "p1 @p2 ...": @ marks an optional parameter, empty names
\* are skipped
RECURSIVE ParseParams(_)
ParseParams(tokens) ==
    IF tokens = <<>> THEN <<>>
    ELSE LET optional == At(Head(tokens), 1) = "@"
             name     == IF optional THEN From(Head(tokens), 2) ELSE Head(tokens)
         IN  (IF name = "" THEN <<>> ELSE <<[name |-> name, optional |-> optional]>>)
                \o ParseParams(Tail(tokens))

\* the items handed over to the body block: lines are copied, sub-blocks are
\* moved, and block_add_block_item ignores a NULL sub-block
RECURSIVE TransferItems(_)
TransferItems(items) ==
    IF items = <<>> THEN <<>>
    ELSE (IF Head(items).type = "ITEM_BLOCK" /\ Head(items).block = 0
          THEN <<>> ELSE <<Head(items)>>) \o TransferItems(Tail(items))

\* block->items[i].data.block = NULL for every sub-block of the PROC block
ClearedItems(items) ==
    [i \in 1..Len(items) |->
        IF items[i].type = "ITEM_BLOCK" THEN BlockItem(0) ELSE items[i]]

bcl_proc_define(procs, name, params, body_block) ==
    bcl_hash_set(procs, name, [name |-> name, params |-> params, body_block |-> body_block])

bcl_proc_exists(procs, name) == bcl_hash_exists(procs, name)

\* BLOCK_PROC defines the procedure; its body is a new BLOCK_NONE block
ExecProc ==
    /\ ExecEnter({"BLOCK_PROC"})
    /\ LET b == blocks[Top.block]
           params == Take(ParseParams(strtok_all(b.proc_params, " \t")), 32)
           body == [block_create("BLOCK_NONE") EXCEPT !.items = TransferItems(b.items)]
       IN  IF b.proc_name = ""
           THEN /\ Fail("PROC: missing procedure name")
                /\ UNCHANGED <<blocks, procedures>>
           ELSE /\ blocks' = Append([blocks EXCEPT ![Top.block].items = ClearedItems(@)], body)
                /\ procedures' = bcl_proc_define(procedures, b.proc_name, params,
                                                 Len(blocks) + 1)
                /\ Return(Ret("BCL_OK", ""))
                /\ UNCHANGED error_msg
    /\ UNCHANGED <<ext_vars, global_vars, scope_stack, return_value, exit_code, out,
                   host_vars>>

\* the children of a SWITCH block that run for switch_value: a CASE whose
\* expanded value is the same string, or a DEFAULT
Selected(b, switch_value) ==
    {i \in 1..Len(blocks[b].children) :
        LET c == blocks[blocks[b].children[i]]
        IN  \/ c.type = "BLOCK_DEFAULT"
            \/ /\ c.type = "BLOCK_CASE"
               /\ bcl_expand_vars(global_vars, scope_stack, c.condition) = switch_value}

ExecSwitch ==
    /\ ExecEnter({"BLOCK_SWITCH"})
    /\ LET sel == Selected(Top.block, bcl_expand_vars(global_vars, scope_stack,
                                                      blocks[Top.block].condition))
       IN  IF sel # {}
           THEN TailCall(ItemsFrame(blocks[Top.block].children[First(sel)]))
           ELSE Return(Ret("BCL_OK", ""))
    /\ UNCHANGED <<blocks, interp_vars, host_vars>>

(***************************************************************************)
(* bcl_dispatch_command: the built-in commands first, then the procedures  *)
(***************************************************************************)
command_table ==
    {"SET", "UNSET", "INCR", "APPEND", "GLOBAL", "PUTS", "PUTSN", "GETS", "EXPR", "IF",
     "WHILE", "FOR", "FOREACH", "SWITCH", "BREAK", "CONTINUE", "RETURN", "EXIT", "ARRAY",
     "BINARY", "LIST", "SPLIT", "JOIN", "LINDEX", "LRANGE", "LLENGTH", "LAPPEND",
     "LINSERT", "LREPLACE", "CONCAT", "LSORT", "LSEARCH", "INFO", "CLOCK", "STRING",
     "FORMAT", "SCAN", "REGEXP", "REGSUB", "OPEN", "CLOSE", "READ", "TELL", "SEEK", "EOF",
     "PWD", "FILE", "GLOB", "EVAL", "SOURCE", "LOAD", "ENV", "ARGV", "EXEC", "AFTER",
     "EVENT"}

\* the names of the table are upper case: strcasecmp against a name is
\* equality with the name in upper case
IsBuiltin(name) == bcl_strtoupper(name) \in command_table

bcl_is_extension_command(table, name) == bcl_hash_exists(table, name)

\* a dispatch that looks for a procedure before it looks at the table
procedures_first(procs, table, name) ==
    IF bcl_proc_exists(procs, name) THEN "procedure"
    ELSE IF IsBuiltin(name) THEN "builtin"
    ELSE IF bcl_is_extension_command(table, name) THEN "extension"
    ELSE "none"

\* what bcl_dispatch_command runs for a name: the first of the table of the
\* built-in commands, the procedures and the extension commands that knows it
dispatch_target(procs, table, name) ==
    IF IsBuiltin(name) THEN "builtin"
    ELSE IF bcl_proc_exists(procs, name) THEN "procedure"
    ELSE IF bcl_is_extension_command(table, name) THEN "extension"
    ELSE "none"

Dispatching(target) ==
    /\ InFn("bcl_dispatch_command", "enter")
    /\ dispatch_target(procedures, extension_cmds, Top.name) = target

Cmd(names) ==
    /\ Dispatching("builtin")
    /\ bcl_strtoupper(Top.name) \in names

argc == Len(Top.argv)

bcl_cmd_set ==
    /\ Cmd({"SET"})
    /\ IF argc < 1 \/ argc > 2 THEN
            /\ Fail("SET: wrong # args: should be \"SET varname ?value?\"")
            /\ UNCHANGED <<global_vars, scope_stack>>
       ELSE IF argc = 1 THEN
            /\ IF bcl_var_exists(global_vars, scope_stack, Top.argv[1])
               THEN /\ Return(Ret("BCL_OK", bcl_var_get(global_vars, scope_stack, Top.argv[1])))
                    /\ UNCHANGED error_msg
               ELSE Fail("can't read \"" \o Top.argv[1] \o "\": no such variable")
            /\ UNCHANGED <<global_vars, scope_stack>>
       ELSE LET v == bcl_var_set(global_vars, scope_stack, Top.argv[1], Top.argv[2])
            IN  /\ global_vars' = v.gv
                /\ scope_stack' = v.ss
                /\ Return(Ret("BCL_OK", Top.argv[2]))
                /\ UNCHANGED error_msg
    /\ UNCHANGED <<blocks, procedures, ext_vars, return_value, exit_code, out, host_vars>>

bcl_cmd_unset ==
    /\ Cmd({"UNSET"})
    /\ IF argc # 1 THEN
            /\ Fail("UNSET: wrong # args: should be \"UNSET varname\"")
            /\ UNCHANGED <<global_vars, scope_stack>>
       ELSE LET v == bcl_var_unset(global_vars, scope_stack, Top.argv[1])
            IN  /\ global_vars' = v.gv
                /\ scope_stack' = v.ss
                /\ Return(Ret("BCL_OK", ""))
                /\ UNCHANGED error_msg
    /\ UNCHANGED <<blocks, procedures, ext_vars, return_value, exit_code, out, host_vars>>

\* the number a variable holds for INCR: 0 when it does not exist
IncrCurrent(name) ==
    IF bcl_var_exists(global_vars, scope_stack, name)
    THEN bcl_str_to_number(bcl_var_get(global_vars, scope_stack, name))
    ELSE [ok |-> TRUE, value |-> 0]

bcl_cmd_incr ==
    /\ Cmd({"INCR"})
    /\ LET increment == IF argc = 2 THEN bcl_str_to_number(Top.argv[2])
                        ELSE [ok |-> TRUE, value |-> 1]
       IN  IF argc < 1 \/ argc > 2 THEN
                /\ Fail("INCR: wrong # args: should be \"INCR varname ?increment?\"")
                /\ UNCHANGED <<global_vars, scope_stack>>
           ELSE IF ~increment.ok THEN
                /\ Fail("expected integer but got \"" \o Top.argv[2] \o "\"")
                /\ UNCHANGED <<global_vars, scope_stack>>
           ELSE IF ~IncrCurrent(Top.argv[1]).ok THEN
                /\ Fail("expected integer but got \""
                            \o bcl_var_get(global_vars, scope_stack, Top.argv[1]) \o "\"")
                /\ UNCHANGED <<global_vars, scope_stack>>
           ELSE LET buf == FormatNumber(IncrCurrent(Top.argv[1]).value + increment.value)
                    v   == bcl_var_set(global_vars, scope_stack, Top.argv[1], buf)
                IN  /\ global_vars' = v.gv
                    /\ scope_stack' = v.ss
                    /\ Return(Ret("BCL_OK", buf))
                    /\ UNCHANGED error_msg
    /\ UNCHANGED <<blocks, procedures, ext_vars, return_value, exit_code, out, host_vars>>

\* GLOBAL marks each name in the global_refs of the current scope; at depth 0
\* it does nothing
\* a GLOBAL that marks nothing
marks_nothing(refs, names) == refs

RECURSIVE MarkGlobals(_, _)
MarkGlobals(refs, names) ==
    IF names = <<>> THEN refs
    ELSE MarkGlobals(bcl_hash_set(refs, Head(names), "1"), Tail(names))

bcl_cmd_global ==
    /\ Cmd({"GLOBAL"})
    /\ IF argc < 1 THEN
            /\ Fail("GLOBAL: wrong # args: should be \"GLOBAL varName ?varName ...?\"")
            /\ UNCHANGED scope_stack
       ELSE /\ scope_stack' =
                  IF Len(scope_stack) = 0 THEN scope_stack
                  ELSE [scope_stack EXCEPT ![Len(scope_stack)].global_refs =
                                                MarkGlobals(@, Top.argv)]
            /\ Return(Ret("BCL_OK", ""))
            /\ UNCHANGED error_msg
    /\ UNCHANGED <<blocks, procedures, ext_vars, global_vars, return_value, exit_code, out,
                   host_vars>>

\* no file handle is open: the arguments go to stdout, separated by blanks
bcl_cmd_puts ==
    /\ Cmd({"PUTS"})
    /\ out' = Append(out, JoinArgs(Top.argv))
    /\ Return(Ret("BCL_OK", ""))
    /\ UNCHANGED <<blocks, procedures, ext_vars, global_vars, scope_stack, return_value, exit_code,
                   error_msg, host_vars>>

bcl_cmd_expr_action ==
    /\ Cmd({"EXPR"})
    /\ IF argc < 1
       THEN Fail("EXPR: wrong # args: should be \"EXPR expression\"")
       ELSE Return(Ret("BCL_OK", bcl_cmd_expr(Top.argv))) /\ UNCHANGED error_msg
    /\ UNCHANGED <<blocks, procedures, ext_vars, global_vars, scope_stack, return_value, exit_code,
                   out, host_vars>>

bcl_cmd_break ==
    /\ Cmd({"BREAK"})
    /\ Return(Ret("BCL_BREAK", ""))
    /\ UNCHANGED <<blocks, interp_vars, host_vars>>

bcl_cmd_continue ==
    /\ Cmd({"CONTINUE"})
    /\ Return(Ret("BCL_CONTINUE", ""))
    /\ UNCHANGED <<blocks, interp_vars, host_vars>>

\* the arguments joined by blanks become interp->return_value
bcl_cmd_return ==
    /\ Cmd({"RETURN"})
    /\ return_value' = <<JoinArgs(Top.argv)>>
    /\ Return(Ret("BCL_RETURN", JoinArgs(Top.argv)))
    /\ UNCHANGED <<blocks, procedures, ext_vars, global_vars, scope_stack, exit_code,
                   error_msg, out, host_vars>>

bcl_cmd_exit ==
    /\ Cmd({"EXIT"})
    /\ LET code == IF argc > 0 THEN bcl_str_to_number(Top.argv[1])
                   ELSE [ok |-> TRUE, value |-> 0]
       IN  IF ~code.ok
           THEN /\ Fail("expected integer but got \"" \o Top.argv[1] \o "\"")
                /\ UNCHANGED exit_code
           ELSE /\ exit_code' = code.value
                /\ Return(Ret("BCL_EXIT", ""))
                /\ UNCHANGED error_msg
    /\ UNCHANGED <<blocks, procedures, ext_vars, global_vars, scope_stack, return_value, out,
                   host_vars>>

\* WHILE, FOR, FOREACH and SWITCH as commands of a line
bcl_cmd_block_keyword ==
    /\ Cmd(LoopKeywords)
    /\ Fail(bcl_strtoupper(Top.name) \o ": multi-line control structures not yet implemented")
    /\ UNCHANGED <<blocks, procedures, ext_vars, global_vars, scope_stack, return_value, exit_code,
                   out, host_vars>>

\* eval_condition of bcl_control.c: the variables are expanded and EXPR decides
eval_condition(gv, ss, condition) ==
    condition # "" /\ ExprTruth(bcl_expand_vars(gv, ss, condition))

\* IF <cond> THEN <cmd> [ELSE <cmd>] END on one line: the error, or the command
\* of the chosen branch ("" when there is nothing to run)
IfPlan(gv, ss, argv) ==
    LET n        == Len(argv)
        thens    == {i \in 2..n : bcl_strcasecmp(argv[i], "THEN")}
        then_idx == First(thens)
        ends     == {i \in (then_idx + 1)..n :
                        ~bcl_strcasecmp(argv[i], "ELSE") /\ bcl_strcasecmp(argv[i], "END")}
        end_idx  == First(ends)
        elses    == {i \in (then_idx + 1)..(end_idx - 1) : bcl_strcasecmp(argv[i], "ELSE")}
        cond     == eval_condition(gv, ss, JoinArgs(SubSeq(argv, 1, then_idx - 1)))
    IN  IF n < 4 THEN
            [error |-> "IF: wrong # args: should be \"IF condition THEN command [ELSE command] END\"",
             cmd |-> ""]
        ELSE IF thens = {} THEN [error |-> "IF: missing THEN keyword", cmd |-> ""]
        ELSE IF ends = {} THEN [error |-> "IF: missing END keyword", cmd |-> ""]
        ELSE IF cond THEN
            [error |-> "",
             cmd |-> JoinArgs(SubSeq(argv, then_idx + 1,
                                     (IF elses # {} THEN First(elses) ELSE end_idx) - 1))]
        ELSE IF elses # {} THEN
            [error |-> "", cmd |-> JoinArgs(SubSeq(argv, First(elses) + 1, end_idx - 1))]
        ELSE [error |-> "", cmd |-> ""]

\* the chosen command is evaluated by bcl_eval and its signal is returned
bcl_cmd_if ==
    /\ Cmd({"IF"})
    /\ LET plan == IfPlan(global_vars, scope_stack, Top.argv)
       IN  IF plan.error # "" THEN Fail(plan.error)
           ELSE /\ IF plan.cmd # "" THEN TailCall(EvalFrame(plan.cmd))
                                    ELSE Return(Ret("BCL_OK", ""))
                /\ UNCHANGED error_msg
    /\ UNCHANGED <<blocks, procedures, ext_vars, global_vars, scope_stack, return_value, exit_code,
                   out, host_vars>>

(***************************************************************************)
(* bcl_proc_call                                                           *)
(***************************************************************************)
BCL_MAX_SCOPE_DEPTH == 256

\* a scope stack that always takes one more scope
never_full(ss) == FALSE

\* interp->scope_depth >= BCL_MAX_SCOPE_DEPTH: bcl_scope_push fails
scope_full(ss) == Len(ss) >= BCL_MAX_SCOPE_DEPTH

bcl_scope_push(ss) == Append(ss, scope_create)

\* a pop that forgets to remove the scope
scope_unpopped(ss) == ss

bcl_scope_pop(ss) == SubSeq(ss, 1, Len(ss) - 1)

\* a count that takes every parameter for optional
none_required(proc) == 0

required_args(proc) == Cardinality({i \in 1..Len(proc.params) : ~proc.params[i].optional})

\* the first min(param_count, arg_count) parameters are set to the arguments
RECURSIVE BindParams(_, _, _, _, _)
BindParams(gv, ss, params, args, i) ==
    IF i > Len(params) \/ i > Len(args) THEN [gv |-> gv, ss |-> ss]
    ELSE LET v == bcl_var_set(gv, ss, params[i].name, args[i])
         IN  BindParams(v.gv, v.ss, params, args, i + 1)

ProcCallFrame(name) == [fn |-> "bcl_proc_call", pc |-> "body", name |-> name]

\* a name that is no built-in command and is a defined procedure: the argument
\* count is checked, a scope is pushed, the parameters are bound and the body runs
ProcCallEnter ==
    /\ Dispatching("procedure")
    /\ LET proc == bcl_hash_get(procedures, Top.name)
           v == BindParams(global_vars, bcl_scope_push(scope_stack), proc.params, Top.argv, 1)
       IN  IF argc < required_args(proc) THEN
                /\ Fail("wrong # args: should be \"" \o Top.name \o " param ...\"")
                /\ UNCHANGED <<global_vars, scope_stack>>
           ELSE IF scope_full(scope_stack) THEN
                /\ Fail("Maximum scope depth exceeded")
                /\ UNCHANGED <<global_vars, scope_stack>>
           ELSE /\ global_vars' = v.gv
                /\ scope_stack' = v.ss
                /\ stack' = Below \o <<ProcCallFrame(Top.name), ExecBlockFrame(proc.body_block)>>
                /\ ret' = NoRet
                /\ UNCHANGED error_msg
    /\ UNCHANGED <<blocks, procedures, ext_vars, return_value, exit_code, out, host_vars>>

\* a call that hands the signal of its body on as it is
signal_unchanged(res) == res

\* the signal bcl_proc_call returns for the signal res of the body
proc_result_signal(res) == IF res = "BCL_RETURN" THEN "BCL_OK" ELSE res

\* the body has returned: Return becomes Ok with interp->return_value as the
\* result, the scope is popped, any other signal is returned as it is
ProcCallExit ==
    /\ InFn("bcl_proc_call", "body")
    /\ return_value' = IF ret.res = "BCL_RETURN" THEN <<>> ELSE return_value
    /\ scope_stack' = bcl_scope_pop(scope_stack)
    /\ Return(Ret(proc_result_signal(ret.res),
                  IF ret.res = "BCL_RETURN" /\ return_value # <<>>
                  THEN return_value[1] ELSE ""))
    /\ UNCHANGED <<blocks, procedures, ext_vars, global_vars, exit_code, error_msg, out, host_vars>>

\* The shared objects LOAD finds on disk, each with the command names its
\* bcl_extension_init registers: socket.so of the repository, and an object
\* whose commands carry the name of a built-in command, of a procedure of the
\* scripts below and a name of their own.  Any other path is one dlopen
\* cannot load.
Libraries ==
    ("./socket.so" :> <<"SOCKET">>) @@ ("./shadow.so" :> <<"PUTS", "GREET", "ONLYEXT">>)

\* register_command for each name of the sequence: the value kept in the table
\* stands for the function pointer and names the function
RECURSIVE RegisterAll(_, _, _)
RegisterAll(table, path, names) ==
    IF names = <<>> THEN table
    ELSE RegisterAll(bcl_hash_set(table, Head(names), path \o ":" \o Head(names)),
                     path, Tail(names))

\* LOAD path: an object already loaded or one that cannot be loaded is an
\* error; otherwise its bcl_extension_init registers its commands and the
\* object is put at the head of interp->extensions
bcl_cmd_load ==
    /\ Cmd({"LOAD"})
    /\ IF argc # 1 THEN
            /\ Fail("LOAD: wrong # args: should be \"LOAD path\"")
            /\ UNCHANGED ext_vars
       ELSE LET path == Top.argv[1]
            IN  IF \E i \in 1..Len(extensions) : extensions[i] = path THEN
                     /\ Fail("LOAD: extension \"" \o path \o "\" already loaded")
                     /\ UNCHANGED ext_vars
                ELSE IF path \notin DOMAIN Libraries THEN
                     /\ Fail("LOAD: cannot load \"" \o path \o "\": dlerror")
                     /\ UNCHANGED ext_vars
                ELSE /\ extension_cmds' = RegisterAll(extension_cmds, path, Libraries[path])
                     /\ extensions' = <<path>> \o extensions
                     /\ Return(Ret("BCL_OK", ""))
                     /\ UNCHANGED error_msg
    /\ UNCHANGED <<blocks, procedures, global_vars, scope_stack, return_value, exit_code,
                   out, host_vars>>

\* a name that is neither a built-in command nor a procedure and that an
\* extension has registered: the registered function runs.  SOCKET without
\* a subcommand is an error (socket.c, bcl_cmd_socket); the functions of the
\* other object write their own name and return Ok.
bcl_call_extension_command ==
    /\ Dispatching("extension")
    /\ LET func == bcl_hash_get(extension_cmds, Top.name)
       IN  IF func = "./socket.so:SOCKET" THEN
                /\ argc < 1
                /\ Fail("SOCKET: wrong # args: should be \"SOCKET subcommand ?args?\"")
                /\ UNCHANGED out
           ELSE /\ out' = Append(out, "ext:" \o func)
                /\ Return(Ret("BCL_OK", ""))
                /\ UNCHANGED error_msg
    /\ UNCHANGED <<blocks, procedures, ext_vars, global_vars, scope_stack, return_value,
                   exit_code, host_vars>>

\* neither a built-in command, nor a procedure, nor an extension command
CmdUnknown ==
    /\ Dispatching("none")
    /\ Fail("invalid command name \"" \o Top.name \o "\"")
    /\ UNCHANGED <<blocks, procedures, ext_vars, global_vars, scope_stack, return_value, exit_code,
                   out, host_vars>>

(***************************************************************************)
(* The scripts the host runs.  A scenario is a family name with up to      *)
(* three parameters; Script gives its units, each one a text the host      *)
(* hands to the interpreter.                                               *)
(***************************************************************************)
MaxCounter == 5

MaxStep == 2

WhileLimit == 4

Scenario(kind, a, b, c) == [kind |-> kind, a |-> a, b |-> b, c |-> c]

\* the lines of a unit joined by newlines
RECURSIVE Lines(_)
Lines(ls) == IF ls = <<>> THEN "" ELSE Head(ls) \o "\n" \o Lines(Tail(ls))

\* PROC cond logs its first argument and returns its second: a condition
\* [cond n v] leaves a trace of its evaluation on stdout
CondProc == Lines(<<"PROC cond WITH n v DO", "PUTS c$n", "RETURN $v", "END">>)

\* the parameters of a scenario are strings; numbers are written in decimal
Num(n) == FormatNumber(n)

YesNo == {"yes", "no"}

\* IF [cond 1 a] ... ELSEIF [cond 2 b] ... (ELSE ...) END
IfScript(a, b, else) ==
    <<CondProc,
      Lines(<<"IF [cond 1 " \o a \o "] THEN", "SET X 1", "PUTS b1",
              "ELSEIF [cond 2 " \o b \o "] THEN", "SET X 2", "PUTS b2">>
            \o (IF else = "yes" THEN <<"ELSE", "SET X 3", "PUTS b3">> ELSE <<>>)
            \o <<"END", "PUTS end">>)>>

\* FOR a TO b [STEP c], without the STEP part when c is ""
ForScript(a, b, c) ==
    <<Lines(<<"FOR " \o a \o " TO " \o b \o (IF c = "" THEN "" ELSE " STEP " \o c) \o " DO",
              "PUTS $__FOR", "END">>)>>

ForeachLists == {"\"a b c\"", "a b c", "$L", "one", "\"a  b\tc\"", "$nolist"}

ForeachScript(list) ==
    <<"SET L \"x y z\"",
      Lines(<<"FOREACH x IN " \o list \o " DO", "PUTS $x", "END", "PUTS done">>)>>

\* the command that ends with each signal (bogus is no command: Error)
Signals == {"SET z 1", "RETURN 9", "bogus", "EXIT 2", "BREAK", "CONTINUE"}

\* PROC chk logs the evaluation of a condition a < b
ChkProc == Lines(<<"PROC chk WITH a b DO", "PUTS c", "RETURN [EXPR $a < $b]", "END">>)

\* the limit of the loop: 1000000 for a BREAK with a plain condition
LimitOf(sig, logged) ==
    IF sig = "BREAK" /\ logged = "no" THEN 1000000 ELSE WhileLimit

\* WHILE I < limit, I starting from start, with the body
\* INCR I; IF $I == k THEN sig END; PUTS $I. Logged conditions go through
\* PROC chk
WhileScript(start, sig, k, logged) ==
    LET limit == Num(LimitOf(sig, logged))
        cond  == IF logged = "yes" THEN "[chk $I " \o limit \o "]" ELSE "$I < " \o limit
    IN  <<"SET I " \o start>> \o (IF logged = "yes" THEN <<ChkProc>> ELSE <<>>)
            \o <<Lines(<<"# loop", "WHILE " \o cond \o " DO", "INCR I",
                         "IF $I == " \o k \o " THEN " \o sig \o " END",
                         "  ", "PUTS $I", "END", "PUTS done">>)>>

Nestings == {"plain", "if", "while", "for", "foreach", "switch", "inline", "deep"}

\* the line placed at that nesting of blocks
Nest(nesting, line) ==
    CASE nesting = "plain" -> <<line>>
      [] nesting = "if" -> <<"IF 0 THEN", "PUTS no", "ELSE", line, "END">>
      [] nesting = "while" -> <<"SET n 0", "WHILE $n < 2 DO", "INCR n", line, "END">>
      [] nesting = "for" -> <<"FOR 1 TO 2 DO", line, "END">>
      [] nesting = "foreach" -> <<"FOREACH e IN u v DO", line, "END">>
      [] nesting = "switch" ->
            <<"SWITCH b DO", "CASE a", "PUTS no", "CASE b", line, "DEFAULT", "PUTS no", "END">>
      [] nesting = "inline" -> <<"IF 1 THEN " \o line \o " END">>
      [] nesting = "deep" ->
            <<"IF 1 THEN", "SWITCH x DO", "DEFAULT", "IF 0 THEN", "PUTS no", "ELSEIF 1 THEN",
              line, "END", "END", "END">>

Shapes == {"direct", "nested", "loop", "noargs", "subcommand"}

\* PROC inner runs sig at the given nesting; shape says how it is called
CallScript(sig, nesting, shape) ==
    <<"SET g 0",
      Lines(<<"PROC inner WITH p DO", "SET loc $p", "SET g 5">>
            \o Nest(nesting, IF sig = "RETURN 9" THEN "RETURN $p" ELSE sig)
            \o <<"PUTS tail", "END",
                 "PROC outer WITH q @r DO", "SET w 1", "inner $q", "PUTS back", "RETURN o",
                 "END">>),
      CASE shape = "direct" -> "inner 7"
        [] shape = "nested" -> "outer 7"
        [] shape = "loop" -> Lines(<<"FOR 1 TO 3 DO", "inner 7", "PUTS it$__FOR", "END">>)
        [] shape = "noargs" -> "inner"
        [] shape = "subcommand" -> "PUTS <[inner 7]>",
      "PUTS end">>

\* PROC double of the specification
DoubleScript ==
    <<Lines(<<"PROC double WITH x DO", "RETURN [EXPR $x * 2]", "END">>), "PUTS [double 21]">>

GlobalOrders == {"global-set", "set-global-set", "global-in-if", "no-global"}

\* PROC setg writes g (twice, last x$v), h and loc; g is declared GLOBAL in all
\* orders but one
GlobalScript(v, order, preset) ==
    (IF preset = "yes" THEN <<"SET g 0", "SET h 0">> ELSE <<>>)
        \o <<Lines(<<"PROC setg WITH v DO", "SET h 1">>
                   \o (CASE order = "global-set" -> <<"GLOBAL g">>
                         [] order = "set-global-set" -> <<"SET g 8", "GLOBAL g">>
                         [] order = "global-in-if" -> <<"IF 1 THEN", "GLOBAL g", "END">>
                         [] order = "no-global" -> <<>>)
                   \o <<"SET g $v", "SET g x$v", "SET loc 3", "INCR loc", "END">>),
             "setg " \o v, "PUTS $g", "UNSET g", "IF 1 THEN WHILE 0 DO END">>

SwitchValues == {"\"b\"", "b", "\"a\"", "c", "$v", "B"}

SwitchLayouts == {"cases-default", "default-first", "default-middle", "no-default", "twice"}

\* SWITCH value with the branches CASE "a", CASE "b" and DEFAULT in the order
\* of the layout; "twice" has a second label b after the first; v holds b
SwitchScript(value, layout) ==
    LET A  == <<"CASE \"a\"", "PUTS A">>
        B  == <<"CASE \"b\"", "PUTS B">>
        B2 == <<"CASE b", "PUTS B2">>
        D  == <<"DEFAULT", "PUTS D">>
    IN  <<"SET v b",
          Lines(<<"SWITCH " \o value \o " DO">>
                \o (CASE layout = "cases-default" -> A \o B \o D
                      [] layout = "default-first" -> D \o A \o B
                      [] layout = "default-middle" -> A \o D \o B
                      [] layout = "no-default" -> A \o B
                      [] layout = "twice" -> A \o B \o B2 \o D)
                \o <<"END", "PUTS end">>)>>

\* PROC rec calls itself without end and counts its bodies in the global d
RecurseScript ==
    <<"SET d 0",
      Lines(<<"PROC rec DO", "GLOBAL d", "INCR d", "rec", "PUTS unreached", "END">>),
      "rec", "PUTS $d">>

\* the command lines whose dispatch is looked at: a built-in command, a name
\* that is a procedure and an extension command, names that only an extension
\* registers, and a name nobody knows
DispatchLines == {"puts hi", "PUTS hi", "Greet", "greet", "onlyext", "OnlyExt", "socket",
                  "nothing"}

LoadLines == {"LOAD ./shadow.so", "LOAD ./socket.so", "LOAD ./missing.so", "LOAD",
              "SET z 1"}

\* procedures named as a built-in command and as an extension command are
\* defined (or not), an object is loaded (or not), and the line runs; a second
\* LOAD of the object follows
DispatchScript(line, procs, load) ==
    (IF procs = "yes"
     THEN <<Lines(<<"PROC puts WITH x DO", "PUTS proc:puts", "END">>),
            Lines(<<"PROC greet DO", "PUTS proc:greet", "END">>)>>
     ELSE <<"SET p 0", "SET q 0">>)
        \o <<load, line, load, "PUTS end">>

\* the expressions EXPR is given: two operators in a row on three literals,
\* with and without parentheses, and NOT before and after an operator.  No
\* right operand of % is 0 and no exponent is negative.
ExprOps == {"OR", "AND", "==", "!=", "<", "<=", ">", ">=", "+", "-", "*", "%", "**"}

ExprTriples == {<<"2", "3", "2">>, <<"10", "3", "2">>, <<"1", "2", "3">>}

RECURSIVE Words(_)
Words(ws) == IF Len(ws) = 1 THEN ws[1] ELSE Head(ws) \o " " \o Words(Tail(ws))

Exprs ==
    {Words(<<t[1], o1, t[2], o2, t[3]>>) : t \in ExprTriples, o1 \in ExprOps, o2 \in ExprOps}
        \cup {Words(<<"(", "2", o1, "3", ")", o2, "2">>) : o1 \in ExprOps, o2 \in ExprOps}
        \cup {Words(<<"2", o1, "(", "3", o2, "2", ")">>) :
                    o1 \in ExprOps \ {"%"}, o2 \in ExprOps}
        \cup {Words(<<"NOT", x, o, "2">>) : x \in {"0", "2"}, o \in ExprOps}
        \cup {Words(<<"NOT", "(", x, o, "2", ")">>) : x \in {"0", "2"}, o \in ExprOps}
        \cup {Words(<<"2", o, "NOT", y>>) : o \in ExprOps \ {"%"}, y \in {"0", "2"}}
        \cup {Words(<<"3", "%", "NOT", "0">>), Words(<<"NOT", "NOT", "2">>),
              Words(<<"NOT", "NOT", "0">>)}

ExprScript(e) == <<"PUTS [EXPR " \o e \o "]">>

\* block headers whose condition has a word that begins with the letters of
\* DO or THEN, and headers without such a word
CondHeaders ==
    {"IF 0 + double(1) THEN", "IF 0 + DOUBLE(1) THEN", "IF 0 + abs(1) THEN",
     "WHILE 0 + double(1) DO", "WHILE 0 + abs(1) DO",
     "FOR 1 TO 2 STEP double(1) DO", "FOR 1 TO 2 STEP 1 DO",
     "FOREACH e IN dog cat DO", "FOREACH e IN cat thence DO", "FOREACH e IN cat undo DO",
     "FOREACH e IN a then b DO",
     "SWITCH done DO", "SWITCH Thence DO", "SWITCH cat DO"}

\* the block of the header with a body that writes, then a line after it
CondScript(header) ==
    LET kw == get_first_token(header)
    IN  <<Lines(<<header>>
                \o (IF kw = "SWITCH" THEN <<"CASE " \o strtok_all(header, " ")[2]>> ELSE <<>>)
                \o <<"PUTS body">>
                \o (IF kw = "WHILE" THEN <<"BREAK">> ELSE <<>>)
                \o <<"END">>),
          "PUTS end">>

\* what PROC fill declares GLOBAL before it sets the element arr(i): the
\* array, the element itself, or nothing
ArrayDecls == {"array", "element", "none"}

\* PROC fill sets arr(i) to v after the declaration; preset says whether the
\* element is in the global namespace before the call
ArrayScript(i, decl, preset) ==
    <<IF preset = "yes" THEN "SET arr(" \o i \o ") old" ELSE "SET other 0",
      Lines(<<"PROC fill WITH i v DO">>
            \o (CASE decl = "array" -> <<"GLOBAL arr">>
                  [] decl = "element" -> <<"GLOBAL arr($i)">>
                  [] decl = "none" -> <<"SET loc 1">>)
            \o <<"SET arr($i) $v", "PUTS in:$arr($i)", "END">>),
      "fill " \o i \o " new",
      "PUTS end">>

ScopeDecls == {"global", "local", "none"}

ScopeOps == {"expand", "get", "unset"}

\* PROC look reads or unsets g, after declaring it GLOBAL, binding it locally,
\* or neither; with the preset a global g holds 5
ScopeScript(decl, op, preset) ==
    <<IF preset = "yes" THEN "SET g 5" ELSE "SET other 0",
      Lines(<<"PROC look DO">>
            \o (CASE decl = "global" -> <<"GLOBAL g">>
                  [] decl = "local" -> <<"SET g 7">>
                  [] decl = "none" -> <<"SET loc 1">>)
            \o (CASE op = "expand" -> <<"PUTS r:$g">>
                  [] op = "get" -> <<"SET g", "PUTS got">>
                  [] op = "unset" -> <<"UNSET g", "PUTS r:$g">>)
            \o <<"END">>),
      "look",
      "PUTS end">>

\* texts written between single quotes
QuotedTexts == {"a b", "a\\tb", "a\\nb", "a\\\\b", "a\\\"b", "a\\qb", "x#y", "a\"b", "a$g"}

\* SET and PUTS with a single-quoted argument; g holds 5
QuoteScript(text) == <<"SET g 5", "SET v '" \o text \o "'", "PUTS '" \o text \o "' z">>

\* the tokens that give v its value
SubstValues ==
    {"\"a b\"", "'a  b'", "\"a \\\"q\\\" b\"", "\"a b\\\\\"", "\"a\\\\tb c\"",
     "\"a\\\\\\\\b c\"", "\"a\\nb\"", "ab", "\"a\\\\tb\""}

\* show is called with the result of [SET v] followed by the argument z
SubstScript(value) ==
    <<"SET v " \o value,
      Lines(<<"PROC show WITH @a @b @c DO", "PUTS <$a>", "PUTS <$b>", "PUTS <$c>", "END">>),
      "show [SET v] z",
      "PUTS end">>

\* parameter declarations with required and optional (@) parameters in every order
ParamDecls == {"a b", "a @b", "@a b", "@a @b", "@a b @c", "a @b c"}

ParamArgs == {"", "x", "x y", "x y z"}

\* PROC p with the declared parameters is called with the arguments
ParamScript(decl, args) ==
    <<Lines(<<"PROC p WITH " \o decl \o " DO", "PUTS <$a><$b>", "END">>),
      IF args = "" THEN "p" ELSE "p " \o args,
      "PUTS end">>

RedefinePlaces == {"loop", "proc"}

RedefineBodies == {"lines", "nested", "loop"}

\* the body of PROC q: plain lines, or lines around a nested IF or FOR block
RedefineBody(body) ==
    CASE body = "lines" -> <<"PUTS one", "PUTS two">>
      [] body = "nested" -> <<"PUTS one", "IF 1 THEN", "PUTS in", "END", "PUTS two">>
      [] body = "loop" -> <<"FOR 1 TO 1 DO", "PUTS in", "END", "PUTS two">>

\* what one call of q prints when its body is the parsed one
RedefineOut(body) ==
    CASE body = "lines" -> <<"one", "two">>
      [] body = "nested" -> <<"one", "in", "two">>
      [] body = "loop" -> <<"in", "two">>

\* the block PROC q is executed twice, by a FOR loop or by two calls of PROC
\* maker, and q is called after each execution
RedefineScript(place, body) ==
    IF place = "loop"
    THEN <<Lines(<<"FOR 1 TO 2 DO", "PROC q DO">> \o RedefineBody(body)
                    \o <<"END", "q", "END">>),
           "PUTS end">>
    ELSE <<Lines(<<"PROC maker DO", "PROC q DO">> \o RedefineBody(body)
                    \o <<"END", "q", "END">>),
           "maker", "maker", "PUTS end">>

IfLayouts == {"line", "block"}

IfConds == {"00", "01", "10", "11"}

IfConstructs == {"elseif-else", "else", "plain"}

\* the words of IF c1 THEN SET r a [ELSEIF c2 THEN SET r b] [ELSE SET r c] END,
\* one sequence per line of the multi-line layout
IfWords(conds, construct) ==
    <<"IF " \o SubSeq(conds, 1, 1) \o " THEN", "SET r a">>
        \o (IF construct = "elseif-else"
            THEN <<"ELSEIF " \o SubSeq(conds, 2, 2) \o " THEN", "SET r b">> ELSE <<>>)
        \o (IF construct = "plain" THEN <<>> ELSE <<"ELSE", "SET r c">>)
        \o <<"END">>

\* the construct on one line (evaluated by bcl_eval through the IF command) or
\* over several lines (evaluated by bcl_eval_structured)
IfLayoutScript(layout, conds, construct) ==
    <<IF layout = "line" THEN JoinArgs(IfWords(conds, construct))
      ELSE Lines(IfWords(conds, construct)),
      "PUTS r:$r">>

\* the branch the construct selects
IfBranch(conds, construct) ==
    IF SubSeq(conds, 1, 1) = "1" THEN "a"
    ELSE IF construct = "elseif-else" /\ SubSeq(conds, 2, 2) = "1" THEN "b"
    ELSE IF construct # "plain" THEN "c"
    ELSE ""

NestKinds == {"for", "foreach"}

\* a FOR loop from 1 to 2 whose body holds a nested FOR from a to b, or a nested
\* FOREACH, between two lines that print __FOR
NestScript(a, b, kind) ==
    <<Lines(<<"FOR 1 TO 2 DO", "PUTS o:$__FOR">>
            \o (IF kind = "for" THEN <<"FOR " \o a \o " TO " \o b \o " DO">>
                ELSE <<"FOREACH e IN " \o a \o " " \o b \o " DO">>)
            \o <<"PUTS i:$__FOR", "END", "PUTS p:$__FOR", "END">>)>>

Script(sc) ==
    CASE sc.kind = "if" -> IfScript(sc.a, sc.b, sc.c)
      [] sc.kind = "for" -> ForScript(sc.a, sc.b, sc.c)
      [] sc.kind = "foreach" -> ForeachScript(sc.a)
      [] sc.kind = "while" -> WhileScript("0", sc.a, sc.b, sc.c)
      [] sc.kind = "count" -> WhileScript(sc.a, "SET z 1", "0", sc.c)
      [] sc.kind = "call" -> CallScript(sc.a, sc.b, sc.c)
      [] sc.kind = "double" -> DoubleScript
      [] sc.kind = "recurse" -> RecurseScript
      [] sc.kind = "switch" -> SwitchScript(sc.a, sc.b)
      [] sc.kind = "dispatch" -> DispatchScript(sc.a, sc.b, sc.c)
      [] sc.kind = "expr" -> ExprScript(sc.a)
      [] sc.kind = "cond" -> CondScript(sc.a)
      [] sc.kind = "array" -> ArrayScript(sc.a, sc.b, sc.c)
      [] sc.kind = "scope" -> ScopeScript(sc.a, sc.b, sc.c)
      [] sc.kind = "quote" -> QuoteScript(sc.a)
      [] sc.kind = "subst" -> SubstScript(sc.a)
      [] sc.kind = "params" -> ParamScript(sc.a, sc.b)
      [] sc.kind = "redefine" -> RedefineScript(sc.a, sc.b)
      [] sc.kind = "ifs" -> IfLayoutScript(sc.a, sc.b, sc.c)
      [] sc.kind = "nest" -> NestScript(sc.a, sc.b, sc.c)
      [] sc.kind = "global" -> GlobalScript(sc.a, sc.b, sc.c)

Scenarios ==
    {Scenario("if", a, b, c) : a \in {"0", "1"}, b \in {"0", "1"}, c \in YesNo}
        \cup {Scenario("for", Num(a), Num(b), c) :
                    a \in 1..MaxCounter, b \in 1..MaxCounter,
                    c \in {""} \cup {Num(n) : n \in (0 - MaxStep)..MaxStep}}
        \cup {Scenario("foreach", a, "", "") : a \in ForeachLists}
        \cup {Scenario("while", a, Num(b), c) : a \in Signals, b \in 1..(WhileLimit - 1),
                                                c \in YesNo}
        \cup {Scenario("count", Num(a), "", c) : a \in 1..(WhileLimit + 1), c \in YesNo}
        \cup {Scenario("call", a, b, c) : a \in Signals, b \in Nestings, c \in Shapes}
        \cup {Scenario("double", "", "", "")}
        \cup {Scenario("recurse", "", "", "")}
        \cup {Scenario("switch", a, b, "") : a \in SwitchValues, b \in SwitchLayouts}
        \cup {Scenario("dispatch", a, b, c) : a \in DispatchLines, b \in YesNo,
                                              c \in LoadLines}
        \cup {Scenario("expr", e, "", "") : e \in Exprs}
        \cup {Scenario("cond", h, "", "") : h \in CondHeaders}
        \cup {Scenario("array", i, d, p) : i \in {"1", "k"}, d \in ArrayDecls, p \in YesNo}
        \cup {Scenario("scope", d, o, p) : d \in ScopeDecls, o \in ScopeOps, p \in YesNo}
        \cup {Scenario("quote", t, "", "") : t \in QuotedTexts}
        \cup {Scenario("subst", v, "", "") : v \in SubstValues}
        \cup {Scenario("params", d, a, "") : d \in ParamDecls, a \in ParamArgs}
        \cup {Scenario("redefine", p, b, "") : p \in RedefinePlaces, b \in RedefineBodies}
        \cup {Scenario("ifs", l, c, k) : l \in IfLayouts, c \in IfConds, k \in IfConstructs}
        \cup {Scenario("nest", a, b, k) : a \in {"3", "4"}, b \in {"3", "4", "5"}, k \in NestKinds}
        \cup {Scenario("global", Num(a), b, c) : a \in 1..MaxStep, b \in GlobalOrders,
                                                 c \in YesNo}

Init ==
    /\ scenario \in Scenarios
    /\ input = Script(scenario)
    /\ blocks = <<>>
    /\ procedures = bcl_hash_create
    /\ extensions = <<>>
    /\ extension_cmds = bcl_hash_create
    /\ global_vars = bcl_hash_create
    /\ scope_stack = <<>>
    /\ return_value = <<>>
    /\ exit_code = 0
    /\ error_msg = ""
    /\ out = <<>>
    /\ stack = <<>>
    /\ ret = NoRet
    /\ results = <<>>

Next ==
    \/ HostEvalStructured \/ HostEval \/ HostResult
    \/ ParseBlank \/ ParseIf \/ ParseElseIf \/ ParseElse \/ ParseLoop \/ ParseCase
    \/ ParseDefault \/ ParseProc \/ ParseEnd \/ ParsePlain \/ ParseDone
    \/ EvalLine \/ EvalDispatch \/ EvalAfter \/ EvalDone
    \/ ParseLineEnter \/ ParseLineTokens
    \/ ExpandDone \/ ExpandOpen \/ ExpandEval \/ ExpandAppend
    \/ CondEnter \/ CondEval
    \/ ItemsLine \/ ItemsDispatch \/ ItemsBlock \/ ItemsAfter \/ ItemsDone
    \/ ExecSequence \/ ExecIfCond \/ ExecIfBranch
    \/ ExecWhileCond \/ ExecWhileTest \/ ExecWhileBody
    \/ ExecForEnter \/ ExecForTest \/ ExecForBody
    \/ ExecForeachEnter \/ ExecForeachTest \/ ExecForeachBody
    \/ ExecProc \/ ExecSwitch
    \/ bcl_cmd_set \/ bcl_cmd_unset \/ bcl_cmd_incr \/ bcl_cmd_global \/ bcl_cmd_puts
    \/ bcl_cmd_expr_action \/ bcl_cmd_break \/ bcl_cmd_continue \/ bcl_cmd_return
    \/ bcl_cmd_exit \/ bcl_cmd_block_keyword \/ bcl_cmd_if
    \/ ProcCallEnter \/ ProcCallExit \/ bcl_cmd_load \/ bcl_call_extension_command
    \/ CmdUnknown

Spec == Init /\ [][Next]_vars

(***************************************************************************)
(* bcl_parse_blocks alone, on every sequence of up to MaxLines lines of    *)
(* LineAlphabet: the keywords that open, continue and close blocks, in any *)
(* order, matched or not.                                                  *)
(***************************************************************************)
MaxLines == 3

LineAlphabet ==
    {"IF 1 THEN", "ELSEIF 0 THEN", "ELSE", "WHILE 0 DO", "SWITCH b DO", "CASE b", "DEFAULT",
     "PROC p DO", "END", "PUTS x", "# c"}

LineSeqs == UNION {[1..n -> LineAlphabet] : n \in 1..MaxLines}

\* bcl_eval_structured has created the root and called bcl_parse_blocks
ParseInit ==
    /\ \E ls \in LineSeqs : scenario = Scenario("parse", Lines(ls), "", "")
    /\ input = <<>>
    /\ blocks = <<block_create("BLOCK_NONE")>>
    /\ procedures = bcl_hash_create
    /\ extensions = <<>>
    /\ extension_cmds = bcl_hash_create
    /\ global_vars = bcl_hash_create
    /\ scope_stack = <<>>
    /\ return_value = <<>>
    /\ exit_code = 0
    /\ error_msg = ""
    /\ out = <<>>
    /\ stack = <<[fn |-> "bcl_eval_structured", pc |-> "exec"], ParseFrame(scenario.a, 1)>>
    /\ ret = NoRet
    /\ results = <<>>

ParseNext ==
    \/ ParseBlank \/ ParseIf \/ ParseElseIf \/ ParseElse \/ ParseLoop \/ ParseCase
    \/ ParseDefault \/ ParseProc \/ ParseEnd \/ ParsePlain \/ ParseDone

ParseSpec == ParseInit /\ [][ParseNext]_vars

(***************************************************************************)
(* Properties                                                              *)
(***************************************************************************)
\* the host has run the whole script, or stopped at Exit
Finished ==
    stack = <<>> /\ (input = <<>> \/ (results # <<>> /\ results[Len(results)] = "BCL_EXIT"))

IsPrefix(s, t) == Len(s) <= Len(t) /\ SubSeq(t, 1, Len(s)) = s

Range(s) == {s[i] : i \in 1..Len(s)}

\* the calls of procedures that have not returned yet
ActiveCalls == {k \in 1..Len(stack) : stack[k].fn = "bcl_proc_call"}

\* C1: the scope a procedure call pushes is popped on every way out of the
\* body, whatever signal ends it, so at every moment there are exactly as many
\* scopes as there are calls that have not returned: the depth after a call
\* is the depth before it, for nested calls too.
C1_ScopePushPopPaired == Len(scope_stack) = Cardinality(ActiveCalls)

\* inner, called from outer, has just returned with a Break: outer's scope only
C1_Witness ==
    /\ scenario = Scenario("call", "BREAK", "deep", "nested")
    /\ ret.res = "BCL_BREAK"
    /\ Cardinality(ActiveCalls) = 1
    /\ Len(scope_stack) = 1

\* the parameters of a procedure that are not marked optional
NonOptional(proc) == {i \in 1..Len(proc.params) : ~proc.params[i].optional}

\* C2: a call with fewer arguments than the procedure has non-optional
\* parameters returns Error at once: no scope is pushed, no variable is set,
\* the body does not start.
C2_TooFewArgsRejected ==
    [][(/\ InFn("bcl_dispatch_command", "enter")
        /\ ~IsBuiltin(Top.name)
        /\ bcl_proc_exists(procedures, Top.name)
        /\ Len(Top.argv) < Cardinality(NonOptional(bcl_hash_get(procedures, Top.name))))
       => (/\ ret'.res = "BCL_ERROR"
           /\ stack' = Below
           /\ scope_stack' = scope_stack
           /\ global_vars' = global_vars
           /\ out' = out)]_vars

\* "inner" called without its argument has failed and nothing has run
C2_Witness ==
    /\ scenario = Scenario("call", "SET z 1", "plain", "noargs")
    /\ Finished
    /\ results = <<"BCL_OK", "BCL_OK", "BCL_ERROR", "BCL_OK">>
    /\ error_msg = "wrong # args: should be \"inner param ...\""
    /\ out = <<"end">>
    /\ global_vars = ("g" :> "0")

\* C3: RETURN v at any nesting of IF, WHILE, FOR, FOREACH and SWITCH blocks
\* ends the body at once and the call yields Ok with v: the rest of the body
\* ("PUTS tail") never runs, the caller goes on, [inner 7] is 7 and
\* [double 21] is 42; a body that ends without RETURN yields Ok with "".
C3_ReturnEndsCall ==
    /\ (scenario.kind = "call" /\ scenario.a = "RETURN 9") =>
            /\ "tail" \notin Range(out)
            /\ (Finished /\ scenario.c = "direct") =>
                    /\ results = <<"BCL_OK", "BCL_OK", "BCL_OK", "BCL_OK">>
                    /\ out = <<"end">>
            /\ (Finished /\ scenario.c = "nested") =>
                    /\ results = <<"BCL_OK", "BCL_OK", "BCL_OK", "BCL_OK">>
                    /\ out = <<"back", "end">>
            /\ (Finished /\ scenario.c = "loop") => out = <<"it1", "it2", "it3", "end">>
            /\ (Finished /\ scenario.c = "subcommand") => out = <<"<7>", "end">>
    /\ (scenario.kind = "call" /\ scenario.a = "SET z 1" /\ Finished) =>
            /\ scenario.c = "direct" =>
                    /\ results = <<"BCL_OK", "BCL_OK", "BCL_OK", "BCL_OK">>
                    /\ out = <<"tail", "end">>
            /\ scenario.c = "subcommand" => out = <<"tail", "<>", "end">>
    /\ (scenario.kind = "double" /\ Finished) =>
            /\ results = <<"BCL_OK", "BCL_OK">>
            /\ out = <<"42">>

\* RETURN $p below IF, SWITCH, IF/ELSEIF has given the value to the caller
C3_Witness ==
    /\ scenario = Scenario("call", "RETURN 9", "deep", "subcommand")
    /\ Finished
    /\ out = <<"<7>", "end">>

\* C4: a procedure call yields Ok, Error or Exit only: a Break or Continue
\* of the body does not reach the caller, and so neither ends nor skips an
\* iteration of the caller's loop.
C4_CallYieldsOkErrorExit ==
    /\ (scenario.kind = "call" /\ scenario.c = "direct" /\ Len(results) >= 3) =>
            results[3] \in {"BCL_OK", "BCL_ERROR", "BCL_EXIT"}
    /\ (/\ scenario.kind = "call"
        /\ scenario.c = "loop"
        /\ scenario.a \in {"BREAK", "CONTINUE"}
        /\ Finished) => {"it1", "it2", "it3"} \subseteq Range(out)

\* C5: what a body sets without GLOBAL stays in its scope.  The bodies of
\* inner, outer and setg set p, q, loc, g, w, z, n, e, __FOR, v and h; none
\* of them reaches the global namespace, and a global of the same name keeps
\* the value it had.
C5_LocalsDoNotLeak ==
    /\ scenario.kind = "call" =>
            /\ DOMAIN global_vars \subseteq {"g", "__for"}
            /\ "g" \in DOMAIN global_vars => global_vars["g"] = "0"
            /\ "__for" \in DOMAIN global_vars => scenario.c = "loop"
    /\ scenario.kind = "global" =>
            /\ DOMAIN global_vars \subseteq {"g", "h"}
            /\ "h" \in DOMAIN global_vars => scenario.c = "yes" /\ global_vars["h"] = "0"
            /\ (scenario.b = "no-global" /\ "g" \in DOMAIN global_vars) =>
                    scenario.c = "yes" /\ global_vars["g"] = "0"

\* inner has set loc, g and e in a FOREACH of its body and has returned
C5_Witness ==
    /\ scenario = Scenario("call", "SET z 1", "foreach", "direct")
    /\ Finished
    /\ out = <<"tail", "end">>
    /\ scope_stack = <<>>
    /\ global_vars = ("g" :> "0")

\* C6: after GLOBAL g the body's SET g writes the global variable: when the
\* call of setg v has returned, the global g holds the last value written, x<v>,
\* whether or not g existed before and whether or not a local g was set first.
C6_GlobalWritesPersist ==
    (scenario.kind = "global" /\ scenario.b # "no-global" /\ stack = <<>>) =>
        /\ Len(input) = 3 =>
                /\ scope_stack = <<>>
                /\ bcl_hash_exists(global_vars, "g")
                /\ bcl_hash_get(global_vars, "g") = "x" \o scenario.a
        /\ Len(input) = 2 => out = <<"x" \o scenario.a>>

\* setg 2 has returned; it set a local g before GLOBAL g, and g was no global
C6_Witness ==
    /\ scenario = Scenario("global", "2", "set-global-set", "no")
    /\ stack = <<>>
    /\ Len(input) = 3
    /\ global_vars = ("g" :> "x2")

\* what IF [cond 1 a] .. ELSEIF [cond 2 b] .. (ELSE ..) END prints: the
\* conditions that are evaluated and the one branch that runs
IfOut(a, b, else) ==
    <<"c1">>
        \o (IF a = "1" THEN <<"b1">>
            ELSE <<"c2">> \o (IF b = "1" THEN <<"b2">>
                              ELSE IF else = "yes" THEN <<"b3">> ELSE <<>>))
        \o <<"end">>

\* the value of X after it: unset when no branch runs
IfX(a, b, else) ==
    IF a = "1" THEN <<"1">> ELSE IF b = "1" THEN <<"2">>
    ELSE IF else = "yes" THEN <<"3">> ELSE <<>>

\* C7: the block IF runs the branch of the first true condition only, or the
\* ELSE branch when none is true; the conditions after a true one are not
\* evaluated; execution goes on after END.  IF 0 / ELSEIF 1 / ELSE gives X = 2.
C7_FirstTrueBranchOnly ==
    scenario.kind = "if" =>
        /\ IsPrefix(out, IfOut(scenario.a, scenario.b, scenario.c))
        /\ Finished =>
                /\ out = IfOut(scenario.a, scenario.b, scenario.c)
                /\ results = <<"BCL_OK", "BCL_OK">>
                /\ IfX(scenario.a, scenario.b, scenario.c) =
                        (IF bcl_hash_exists(global_vars, "X")
                         THEN <<bcl_hash_get(global_vars, "X")>> ELSE <<>>)

C7_Witness ==
    /\ scenario = Scenario("if", "0", "1", "yes")
    /\ Finished
    /\ out = <<"c1", "c2", "b2", "end">>
    /\ global_vars = ("x" :> "2")

\* what WHILE I < limit DO INCR I; IF $I == k THEN sig END; PUTS $I END does
\* from I = i: the output (a "c" for each logged evaluation of the condition),
\* the signal that ends it and the last value of I
RECURSIVE WhileRun(_, _, _, _, _)
WhileRun(i, limit, k, sig, logged) ==
    LET c == IF logged = "yes" THEN <<"c">> ELSE <<>>
    IN  IF ~(i < limit) THEN [out |-> c, res |-> "BCL_OK", I |-> i]
        ELSE IF i + 1 = k /\ sig \in {"BREAK", "RETURN 9", "bogus", "EXIT 2"}
        THEN [out |-> c, I |-> i + 1,
              res |-> CASE sig = "BREAK" -> "BCL_OK"
                        [] sig = "RETURN 9" -> "BCL_RETURN"
                        [] sig = "bogus" -> "BCL_ERROR"
                        [] sig = "EXIT 2" -> "BCL_EXIT"]
        ELSE LET rest == WhileRun(i + 1, limit, k, sig, logged)
             IN  [rest EXCEPT !.out =
                    c \o (IF i + 1 = k /\ sig = "CONTINUE" THEN <<>> ELSE <<Num(i + 1)>>)
                      \o @]

\* the output of the whole unit: "done" follows a loop that ended with Ok
WhileOut(run) == run.out \o (IF run.res = "BCL_OK" THEN <<"done">> ELSE <<>>)

WhileAsRun(run) ==
    /\ IsPrefix(out, WhileOut(run))
    /\ Finished =>
            /\ out = WhileOut(run)
            /\ results[Len(results)] = run.res
            /\ bcl_hash_get(global_vars, "I") = Num(run.I)

\* C8: WHILE evaluates its condition before every iteration, the first one
\* included, and runs the body while it is true; Break ends the loop and
\* execution goes on after it; Continue leaves the rest of the iteration and
\* the condition is evaluated again.  With a limit of 1000000 and a BREAK at
\* I == 3 the loop leaves I equal to 3.
C8_WhileSemantics ==
    /\ scenario.kind = "while" =>
            \A k \in 1..(WhileLimit - 1) :
                scenario.b = Num(k) =>
                    WhileAsRun(WhileRun(0, LimitOf(scenario.a, scenario.c), k,
                                        scenario.a, scenario.c))
    /\ scenario.kind = "count" =>
            \A i \in 1..(WhileLimit + 1) :
                scenario.a = Num(i) =>
                    WhileAsRun(WhileRun(i, WhileLimit, 0, "SET z 1", scenario.c))

C8_Witness ==
    /\ scenario = Scenario("while", "BREAK", "3", "no")
    /\ Finished
    /\ out = <<"1", "2", "done">>
    /\ global_vars = ("i" :> "3")

\* the values a, a + step, ... up to fin (down to fin for a negative step)
RECURSIVE ForSeq(_, _, _)
ForSeq(i, fin, paso) ==
    IF (paso > 0 /\ i <= fin) \/ (paso < 0 /\ i >= fin)
    THEN <<Num(i)>> \o ForSeq(i + paso, fin, paso)
    ELSE <<>>

ForAsSeq(seq) ==
    /\ IsPrefix(out, seq)
    /\ Finished => out = seq /\ results = <<"BCL_OK">>

\* C9: FOR a TO b STEP s runs the body with __FOR = a, a+s, ... while the
\* counter is <= b for a positive step and >= b for a negative one; the step
\* is 1 when there is no STEP; a step of 0 never runs the body.
\* 1 TO 5 STEP 2 gives 1, 3, 5 and 5 TO 1 STEP -1 gives 5, 4, 3, 2, 1.
C9_ForSemantics ==
    scenario.kind = "for" =>
        \A a \in 1..MaxCounter, b \in 1..MaxCounter :
            (scenario.a = Num(a) /\ scenario.b = Num(b)) =>
                /\ scenario.c = "" => ForAsSeq(ForSeq(a, b, 1))
                /\ \A c \in (0 - MaxStep)..MaxStep :
                        scenario.c = Num(c) => ForAsSeq(ForSeq(a, b, c))

\* FOR 5 TO 1 STEP -1 has counted down
C9_Witness ==
    /\ scenario = Scenario("for", "5", "1", "-1")
    /\ Finished
    /\ out = <<"5", "4", "3", "2", "1">>

\* C10: FOREACH x IN "a b c" runs the body three times with x bound to
\* a, b and c, without the quote characters.
C10_ForeachQuotedList ==
    (scenario = Scenario("foreach", "\"a b c\"", "", "") /\ Finished) =>
        out = <<"a", "b", "c", "done">>


\* the branch of a SWITCH on an unquoted value that the labels a and b select
\* ("" for none): the comparison is exact
CaseOf(value) == IF value \in {"b", "$v"} THEN "B" ELSE ""

\* C11: SWITCH "b" with CASE "a", CASE "b" and DEFAULT runs the items of
\* CASE "b" and of no other branch.
C11_QuotedSwitchValue ==
    (scenario = Scenario("switch", "\"b\"", "cases-default", "") /\ Finished) =>
        out = <<"B", "end">>


\* C12: once a unit yields Error or Exit every enclosing construct stops and
\* hands the same signal on: inner raises it at each nesting and is called
\* directly, from outer, in a loop and in the subcommand of a PUTS line; no
\* later line of the calling unit runs (nothing but the "end" of the next
\* unit is printed) and the evaluation of the unit returns the signal.
C12_ErrorExitAbort ==
    (scenario.kind = "call" /\ scenario.a \in {"bogus", "EXIT 2"} /\ scenario.c # "noargs") =>
        /\ Range(out) \subseteq {"end"}
        /\ Len(results) >= 3 =>
                results[3] = (IF scenario.a = "bogus" THEN "BCL_ERROR" ELSE "BCL_EXIT")


\* C13: there are never more active procedure calls, nor more scopes, than
\* BCL_MAX_SCOPE_DEPTH; the call that would exceed it returns Error without
\* running its body (rec counts BCL_MAX_SCOPE_DEPTH bodies and none goes on
\* after its own call), and when the Error has unwound the scope depth is 0
\* again and the next unit runs.
C13_RecursionBounded ==
    /\ Len(scope_stack) <= BCL_MAX_SCOPE_DEPTH
    /\ Cardinality(ActiveCalls) <= BCL_MAX_SCOPE_DEPTH
    /\ scenario.kind = "recurse" =>
            /\ "unreached" \notin Range(out)
            /\ Len(results) >= 3 =>
                    /\ results[3] = "BCL_ERROR"
                    /\ error_msg = "Maximum scope depth exceeded"
                    /\ global_vars = ("d" :> FormatNumber(BCL_MAX_SCOPE_DEPTH))
                    /\ stack = <<>> => scope_stack = <<>>
            /\ Finished =>
                    /\ results = <<"BCL_OK", "BCL_OK", "BCL_ERROR", "BCL_OK">>
                    /\ out = <<FormatNumber(BCL_MAX_SCOPE_DEPTH)>>

\* the call at full depth has just been refused
C13_Witness ==
    /\ scenario.kind = "recurse"
    /\ Len(scope_stack) = BCL_MAX_SCOPE_DEPTH
    /\ Cardinality(ActiveCalls) = BCL_MAX_SCOPE_DEPTH
    /\ ret.res = "BCL_ERROR"
    /\ error_msg = "Maximum scope depth exceeded"

\* the command name of a command line, and the extension commands a LOAD line
\* makes known
NameOf(line) == SubSeq(line, 1, skip_word(line, 1) - 1)

Registered(load) ==
    IF load \in {"LOAD " \o p : p \in DOMAIN Libraries}
    THEN {[path |-> From(load, 6), name |-> n] : n \in Range(Libraries[From(load, 6)])}
    ELSE {}

\* what the line of a dispatch scenario has to write, by the order built-in
\* command, procedure, extension command; <<"error">> where no one knows it
\* and where the command that runs fails (SOCKET without a subcommand)
DispatchOut(line, procs, load) ==
    LET name == bcl_strtoupper(NameOf(line))
        exts == {e \in Registered(load) : e.name = name}
    IN  IF name \in command_table THEN <<"hi">>
        ELSE IF procs = "yes" /\ name \in {"PUTS", "GREET"}
             THEN <<"proc:" \o bcl_strtolower(name)>>
        ELSE IF exts # {} /\ name # "SOCKET"
             THEN <<"ext:" \o (CHOOSE e \in exts : TRUE).path \o ":" \o name>>
        ELSE <<"error">>

\* the kinds of step a dispatch takes: a procedure is entered, an extension
\* command has written its name
EntersProcedure == Len(stack') = Len(stack) + 1 /\ stack'[Len(stack)].fn = "bcl_proc_call"

RunsExtension ==
    /\ Len(out') = Len(out) + 1
    /\ out'[Len(out')] \in {"ext:" \o e.path \o ":" \o e.name :
                                e \in UNION {Registered(l) : l \in LoadLines}}

\* C14: a command name is looked up among the built-in commands first, then
\* among the procedures, then among the extension commands, without regard to
\* case, and only the first that knows it runs: a procedure or an extension
\* command named as a built-in command never runs, and a name nobody knows
\* gives Error
C14_DispatchOrder ==
    /\ [](scenario.kind = "dispatch" =>
            LET want == DispatchOut(scenario.a, scenario.b, scenario.c)
                done == IF want = <<"error">> THEN <<>> ELSE want
            IN  /\ IsPrefix(out, done \o <<"end">>)
                /\ Len(results) < 3 => out = <<>>
                /\ Len(results) >= 4 =>
                        /\ results[4] = (IF want = <<"error">> THEN "BCL_ERROR" ELSE "BCL_OK")
                        /\ IsPrefix(done, out)
                /\ Finished => out = done \o <<"end">>)
    /\ [][InFn("bcl_dispatch_command", "enter") =>
            /\ IsBuiltin(Top.name) => ~EntersProcedure /\ ~RunsExtension
            /\ EntersProcedure => bcl_proc_exists(procedures, Top.name)
            /\ RunsExtension =>
                    ~bcl_proc_exists(procedures, Top.name)
                        /\ bcl_hash_exists(extension_cmds, Top.name)
            /\ (~IsBuiltin(Top.name) /\ ~bcl_proc_exists(procedures, Top.name)
                    /\ ~bcl_hash_exists(extension_cmds, Top.name)) =>
                   (stack' = Below /\ ret'.res = "BCL_ERROR" /\ out' = out)]_vars

\* a name that is a procedure and an extension command has run the procedure,
\* written in another case than the one it was defined in
C14_Witness ==
    /\ scenario = Scenario("dispatch", "Greet", "yes", "LOAD ./shadow.so")
    /\ Finished
    /\ out = <<"proc:greet", "end">>
    /\ bcl_hash_exists(extension_cmds, "greet")

\* A reference evaluator by precedence climbing over the words of an
\* expression: OR < AND < ==, != < relational < +, - < *, % < NOT < **, with
\* ** and NOT right-associative and every other operator left-associative
RefPrec(op) ==
    CASE op = "OR" -> 1
      [] op = "AND" -> 2
      [] op \in {"==", "!="} -> 3
      [] op \in {"<", "<=", ">", ">="} -> 4
      [] op \in {"+", "-"} -> 5
      [] op \in {"*", "%"} -> 6
      [] op = "NOT" -> 7
      [] op = "**" -> 8

RECURSIVE RefPow(_, _)
RefPow(b, e) == IF e = 0 THEN 1 ELSE b * RefPow(b, e - 1)

\* the remainder with the sign of the dividend
RefMod(l, r) == IF l < 0 THEN 0 - ((0 - l) % r) ELSE l % r

RefApply(op, l, r) ==
    CASE op = "OR" -> IF l # 0 \/ r # 0 THEN 1 ELSE 0
      [] op = "AND" -> IF l # 0 /\ r # 0 THEN 1 ELSE 0
      [] op = "==" -> IF l = r THEN 1 ELSE 0
      [] op = "!=" -> IF l # r THEN 1 ELSE 0
      [] op = "<" -> IF l < r THEN 1 ELSE 0
      [] op = "<=" -> IF l <= r THEN 1 ELSE 0
      [] op = ">" -> IF l > r THEN 1 ELSE 0
      [] op = ">=" -> IF l >= r THEN 1 ELSE 0
      [] op = "+" -> l + r
      [] op = "-" -> l - r
      [] op = "*" -> l * r
      [] op = "%" -> RefMod(l, r)
      [] op = "**" -> RefPow(l, r)

RECURSIVE RefExpr(_, _, _)
RECURSIVE RefClimb(_, _, _)
\* an operand: NOT and its operand, an expression in parentheses, or a literal
RefUnary(ws, pos) ==
    IF ws[pos] = "NOT" THEN
        LET r == RefExpr(ws, pos + 1, RefPrec("NOT"))
        IN  [val |-> IF r.val = 0 THEN 1 ELSE 0, pos |-> r.pos]
    ELSE IF ws[pos] = "(" THEN
        LET r == RefExpr(ws, pos + 1, 1)
        IN  [val |-> r.val, pos |-> r.pos + 1]
    ELSE [val |-> DigitsValue(ws[pos]), pos |-> pos + 1]

\* the operators of precedence minprec and more that follow the operand lhs
RefClimb(ws, lhs, minprec) ==
    IF lhs.pos <= Len(ws) /\ ws[lhs.pos] \in ExprOps /\ RefPrec(ws[lhs.pos]) >= minprec
    THEN LET op  == ws[lhs.pos]
             rhs == RefExpr(ws, lhs.pos + 1,
                            IF op = "**" THEN RefPrec(op) ELSE RefPrec(op) + 1)
         IN  RefClimb(ws, [val |-> RefApply(op, lhs.val, rhs.val), pos |-> rhs.pos], minprec)
    ELSE lhs

RefExpr(ws, pos, minprec) == RefClimb(ws, RefUnary(ws, pos), minprec)

RefValue(e) == FormatNumber(RefExpr(strtok_all(e, " "), 1, 1).val)

\* C15: EXPR gives the value of the reference evaluator for every expression
\* of non-negative integer literals, parentheses and the operators OR, AND,
\* ==, !=, <, <=, >, >=, +, -, *, %, NOT and **
C15_ExprMatchesReference ==
    (scenario.kind = "expr" /\ Finished) => out = <<RefValue(scenario.a)>>

\* the nestings of the call scenarios in which no loop is around the signal
BareNestings == {"plain", "if", "switch", "inline", "deep"}

\* one step of exec_block_items on top of the stack: item i is handed to
\* bcl_parse_line or bcl_exec_block, the item after an Ok is item i + 1, and
\* any other signal ends the function, which returns that signal
SequenceStep ==
    LET n     == Len(stack)
        items == blocks[Top.block].items
        same  == Len(stack') = n + 1 /\ stack'[n].block = Top.block /\ stack'[n].i = Top.i
        on    == stack' = Below \o <<[Top EXCEPT !.pc = "next", !.i = Top.i + 1]>>
    IN  CASE Top.pc = "next" /\ Top.i > Len(items) -> stack' = Below /\ ret'.res = "BCL_OK"
          [] Top.pc = "next" /\ Top.i <= Len(items) ->
                /\ same
                /\ stack'[n + 1] = (IF items[Top.i].type = "ITEM_LINE"
                                    THEN ParseLineFrame(items[Top.i].line)
                                    ELSE ExecBlockFrame(items[Top.i].block))
          [] Top.pc = "argv" ->
                IF ret.argv = <<>> THEN on ELSE same /\ stack'[n + 1] = DispatchFrame(ret.argv)
          [] Top.pc = "res" ->
                IF ret.res = "BCL_OK" THEN on ELSE stack' = Below /\ ret'.res = ret.res

\* C16: the items of a sequence run in source order, the first item that
\* gives another signal than Ok ends the sequence, which gives exactly that
\* signal (Break and Continue too), and no later item runs: the PUTS tail
\* after a signal in a procedure body is never reached unless a loop is
\* around the signal
C16_SequenceStopsAtFirstSignal ==
    /\ []((scenario.kind = "call" /\ scenario.a # "SET z 1" /\ scenario.b \in BareNestings)
            => "tail" \notin Range(out))
    /\ [][(stack # <<>> /\ Top.fn = "exec_block_items") => SequenceStep]_vars

\* Break comes back from the third item of a procedure body of four items
C16_Witness ==
    /\ scenario = Scenario("call", "BREAK", "plain", "direct")
    /\ InFn("exec_block_items", "res")
    /\ blocks[Top.block].type = "BLOCK_NONE"
    /\ ret.res = "BCL_BREAK"
    /\ Top.i = 3
    /\ Len(blocks[Top.block].items) = 4

\* C17: DEFAULT runs only if no CASE label equals the switch value, wherever
\* it is written, and otherwise the first matching CASE is the only branch
\* that runs (the switch values without quotes)
C17_DefaultOnlyWithoutMatch ==
    (scenario.kind = "switch" /\ scenario.a \in {"b", "c", "$v", "B"} /\ Finished) =>
        out = (IF CaseOf(scenario.a) # "" THEN <<CaseOf(scenario.a)>>
               ELSE IF scenario.b # "no-default" THEN <<"D">>
               ELSE <<>>) \o <<"end">>

\* the frames of bcl_parse_blocks on the C stack
ParseFrames == {k \in 1..Len(stack) : stack[k].fn = "bcl_parse_blocks"}

\* C18: whatever lines bcl_parse_blocks is given, surplus END, ELSE, ELSEIF,
\* CASE and DEFAULT lines among them, its stack of open blocks is never empty
\* and the root stays at its bottom
C18_RootNeverPopped ==
    \A k \in ParseFrames : stack[k].stk # <<>> /\ stack[k].stk[1] = stack[k].root

\* three closing lines with nothing open have been read and changed nothing
C18_Witness ==
    /\ InFn("bcl_parse_blocks", "line")
    /\ Top.lines = <<"END", "ELSE", "DEFAULT">>
    /\ Top.i = 4
    /\ Top.stk = <<Top.root>>
    /\ blocks = <<block_create("BLOCK_NONE")>>

\* the blocks of the given types, and the types of their children
BlocksOf(types) == {b \in 1..Len(blocks) : blocks[b].type \in types}

ChildTypes(types) ==
    {blocks[c].type : c \in UNION {Range(blocks[b].children) : b \in BlocksOf(types)}}

IsBranchLine(line) == line \in {"CASE b", "DEFAULT"}

\* a SWITCH line followed by CASE, DEFAULT and plain lines only
OneSwitch(lines) ==
    /\ lines[1] = "SWITCH b DO"
    /\ \A n \in 2..Len(lines) : lines[n] \in {"CASE b", "DEFAULT", "PUTS x", "# c"}

\* C19: every CASE and DEFAULT of a switch is a child of the Switch block, in
\* source order, and none hangs under another Case or Default: after the
\* SWITCH line (block 2) and any CASE, DEFAULT and plain lines, the children
\* of the Switch are the CASE and DEFAULT lines read so far
C19_BranchesAreSiblings ==
    \A k \in ParseFrames :
        (OneSwitch(stack[k].lines) /\ stack[k].i >= 2) =>
            LET read == SelectSeq(SubSeq(stack[k].lines, 2, stack[k].i - 1), IsBranchLine)
                kids == blocks[2].children
            IN  /\ Len(kids) = Len(read)
                /\ \A n \in 1..Len(kids) :
                        blocks[kids[n]].type =
                            (IF read[n] = "DEFAULT" THEN "BLOCK_DEFAULT" ELSE "BLOCK_CASE")
                /\ ChildTypes({"BLOCK_CASE", "BLOCK_DEFAULT"}) = {}

\* C20: the block an ELSEIF or ELSE line pops and attaches the new block to
\* is an If or an ElseIf: no ElseIf or Else block is attached to a While, For,
\* ForEach, Switch, Case, Default, Proc or Else block
C20_ElseOnlyAfterIf ==
    ChildTypes({"BLOCK_WHILE", "BLOCK_FOR", "BLOCK_FOREACH", "BLOCK_SWITCH", "BLOCK_CASE",
                "BLOCK_DEFAULT", "BLOCK_PROC", "BLOCK_ELSE"})
        \cap {"BLOCK_ELSEIF", "BLOCK_ELSE"} = {}

\* the words of a header after its keyword, up to the first word that is THEN
\* or DO in any letter case, with one blank between them
RECURSIVE WordsUntilDo(_)
WordsUntilDo(ws) ==
    IF ws = <<>> \/ bcl_strtoupper(Head(ws)) \in {"THEN", "DO"} THEN <<>>
    ELSE <<Head(ws)>> \o WordsUntilDo(Tail(ws))

RefCondition(header) ==
    LET ws == WordsUntilDo(Tail(strtok_all(header, " ")))
    IN  IF ws = <<>> THEN "" ELSE Words(ws)

\* C21: the condition stored for an IF, WHILE, FOR, FOREACH or SWITCH block
\* (block 2, the first block of the unit) is the text between the keyword and
\* the next whole word THEN or DO; a word that only begins with the letters of
\* DO or THEN does not end it
C21_ConditionUpToWholeWord ==
    (scenario.kind = "cond" /\ Len(blocks) >= 2) =>
        blocks[2].condition = RefCondition(scenario.a)

\* C22: after GLOBAL arr in a procedure, SET arr(i) writes the key arr(i) of
\* the global namespace: when the call of fill has returned, the element is
\* there with the value the procedure gave it
C22_GlobalArrayElement ==
    (scenario.kind = "array" /\ scenario.b = "array" /\ Len(results) >= 3) =>
        /\ results[3] = "BCL_OK"
        /\ bcl_hash_exists(global_vars, "arr(" \o scenario.a \o ")")
        /\ bcl_hash_get(global_vars, "arr(" \o scenario.a \o ")") = "new"

\* C23: while a local scope exists, a read of a name that is not GLOBAL-declared
\* and has no local binding does not return the global variable of that name:
\* in PROC look without GLOBAL g and without a local g, $g expands to nothing
\* and SET g fails, although a global g holds 5
C23_LocalReadsStayLocal ==
    (scenario.kind = "scope" /\ scenario.a = "none" /\ scenario.c = "yes") =>
        /\ (scenario.b = "expand" /\ Len(out) >= 1) => out[1] = "r:"
        /\ (scenario.b = "get" /\ Len(results) >= 3) =>
                results[3] = "BCL_ERROR" /\ out = <<>>

\* C27: inside a procedure, UNSET of a name with no binding in the current
\* local scope and not GLOBAL-declared leaves the global namespace unchanged
C27_UnsetLeavesGlobals ==
    [][(/\ bcl_cmd_unset
        /\ argc = 1
        /\ has_scope(scope_stack)
        /\ ~bcl_hash_exists(get_current_scope(scope_stack).vars, Top.argv[1])
        /\ ~is_global_var(scope_stack, Top.argv[1]))
            => global_vars' = global_vars]_vars

\* C24: a bracketed subcommand whose result contains whitespace contributes
\* exactly one argument, whose text is the result: show [SET v] z receives the
\* value of v as its first argument, z as its second and no third
C24_SubcommandResultIsOneArgument ==
    (/\ scenario.kind = "subst"
     /\ Len(results) >= 3
     /\ \E i \in 1..Len(bcl_hash_get(global_vars, "v")) :
            isspace(At(bcl_hash_get(global_vars, "v"), i))) =>
        /\ results[3] = "BCL_OK"
        /\ SubSeq(out, 1, 3) = <<"<" \o bcl_hash_get(global_vars, "v") \o ">", "<z>", "<>">>

\* C25: a single-quoted token is literal: the argument a command receives is
\* the text between the quotes, with no escape decoding
C25_SingleQuotedIsLiteral ==
    (scenario.kind = "quote" /\ Len(results) >= 2) =>
        /\ results[2] = "BCL_OK"
        /\ bcl_hash_get(global_vars, "v") = scenario.a
        /\ Len(out) >= 1 => out[1] = scenario.a \o " z"

\* C26: a procedure call that has passed the argument-count check binds every
\* required parameter in the callee's scope before the body runs
C26_RequiredParamsBound ==
    [][(ProcCallEnter /\ Len(scope_stack') = Len(scope_stack) + 1) =>
            LET proc == bcl_hash_get(procedures, Top.name)
            IN  \A i \in 1..Len(proc.params) :
                    ~proc.params[i].optional =>
                        bcl_hash_exists(get_current_scope(scope_stack').vars,
                                        proc.params[i].name)]_vars

\* C28: a PROC block executed more than once registers each time a body with
\* the items the block had after parsing: q, defined twice by the same block
\* and called after each definition, prints the same both times
C28_RedefinitionKeepsBody ==
    scenario.kind = "redefine" =>
        /\ IsPrefix(out, RedefineOut(scenario.b) \o RedefineOut(scenario.b) \o <<"end">>)
        /\ Finished => Len(out) = 2 * Len(RedefineOut(scenario.b)) + 1

\* C29: an IF / ELSEIF / ELSE / END construct executes the same branch with the
\* same signal and variable state whether it is written on one line or over
\* several lines: in both layouts the result is Ok and r holds the letter of the
\* branch the conditions select
C29_InlineIfAgreesWithBlock ==
    (scenario.kind = "ifs" /\ Len(results) >= 1) =>
        /\ results[1] = "BCL_OK"
        /\ VarText(global_vars, <<>>, "r") = IfBranch(scenario.b, scenario.c)

\* the frames of FOR blocks whose body is running
ForFrames ==
    {k \in 1..Len(stack) : /\ stack[k].fn = "bcl_exec_block"
                           /\ stack[k].pc = "body"
                           /\ blocks[stack[k].block].type = "BLOCK_FOR"}

\* a FOR block or a procedure call is active above frame k
NestedAbove(k) ==
    \E j \in (k + 1)..Len(stack) :
        \/ stack[j].fn = "bcl_proc_call"
        \/ stack[j].fn = "bcl_exec_block" /\ blocks[stack[j].block].type = "BLOCK_FOR"

\* C30: while the body of a FOR loop runs, outside any FOR loop or procedure
\* call nested in it, __FOR holds the loop's current counter value, also after
\* a nested FOR loop has completed (no body of the scenarios assigns __FOR)
C30_ForCounterInBody ==
    \A k \in ForFrames :
        ~NestedAbove(k) =>
            VarText(global_vars, scope_stack, "__FOR") = FormatNumber(stack[k].i)

=============================================================================
